---- MODULE Spec2Model ----
(***************************************************************************)
(* GenericProcessingEngine (processing_engine_base.py) with the plugin    *)
(* base classes of plugin_base.py: collector plugins -> filter/processor  *)
(* chain -> output plugins, each phase fanned out over a thread pool.      *)
(***************************************************************************)
EXTENDS Integers, Sequences, FiniteSets, TLC

(* ------------------------------ bounds --------------------------------- *)
MaxRetry == 2
MaxCycles == 3
MaxProcessCalls == 1
MaxDistCalls == 1
MaxBatch == 2
MaxFilters == 2
MaxProcessors == 1
\* the longest processor chain of the specification that checks the order of calls
MaxChain == 2
\* the process_data calls of the specification that checks the index
MaxIndexCalls == 2
MaxWorkers == 2
MaxFiles == 3
MaxDiscover == 2
MaxClock == 2
MaxTags == 2
MaxCapacity == 1
MaxEmits == 2
MaxDataPlugins == 3
MaxTests == 2
MaxRuns == 2
MaxSamples == 2
MaxDate == 2
MaxFileCalls == 2

(* ---------------------------- the universe ----------------------------- *)
\* registered plugins, in dict insertion order
CollectorOrder == <<"c1", "c2">>
OutputOrder == <<"o1", "o2">>
Collectors == {CollectorOrder[i] : i \in 1..Len(CollectorOrder)}
Outputs == {OutputOrder[i] : i \in 1..Len(OutputOrder)}
Plugins == Collectors \cup Outputs

ENABLED_ == "enabled"
DISABLED_ == "disabled"
ERROR_ == "error"
PluginStatus == {ENABLED_, DISABLED_, ERROR_}

\* data items: item_id, item_type and the ordered tag list
MkItem(id, ty) == [item_id |-> id, item_type |-> ty, tags |-> <<>>]
ItemA == MkItem("a", "x")
ItemB == MkItem("b", "y")
ItemC == MkItem("c", "x")
ItemA2 == MkItem("a", "y")
Items == {ItemA, ItemB, ItemC, ItemA2}
\* the items of a direct process_data call: two share an item_id, two an item_type
ProcessItems == {ItemA, ItemB, ItemA2}
ItemIds == {"a", "b", "c"}
NoItem == [item_id |-> "", item_type |-> "", tags |-> <<>>]

\* what a collector's collect_data can return when it returns
Yields(c) == IF c = "c1" THEN {<<ItemA, ItemB>>, <<ItemA>>} ELSE {<<ItemC>>, <<>>}

\* what a collector returns in a cycle that is followed through its three
\* phases: items of the type that one output plugin takes, which one filter
\* rejects both and the other filter one of
CycleYields(c) == IF c = "c1" THEN {<<ItemB>>} ELSE {<<>>, <<ItemA2>>}

\* the batch of the direct process_data and distribute_data calls made next
\* to such cycles
TerminalBatches == {<<ItemB>>}

\* the input batches of a direct process_data / distribute_data call
RECURSIVE SeqsUpTo(_, _)
SeqsUpTo(S, n) ==
  IF n = 0 THEN {<<>>}
  ELSE LET shorter == SeqsUpTo(S, n - 1)
       IN shorter \cup {Append(s, x) : s \in {t \in shorter : Len(t) = n - 1}, x \in S}
Batches == SeqsUpTo(ProcessItems, MaxBatch)
\* the input batches of a direct distribute_data call: distinct items, one of
\* each item_type, which is all that should_send reads
SendBatches == {<<>>, <<ItemA>>, <<ItemB>>, <<ItemA, ItemB>>, <<ItemB, ItemA>>}
\* batches that give one output plugin one send, and two sends
RaceBatches == {<<ItemB>>, <<ItemA, ItemB>>}

\* registrable filter and processor callables
FilterFuncs == {"reject_type_y", "reject_id_b"}
ProcessorFuncs == {"tag_processed", "tag_seen"}

VARIABLES
  cstatus, cerr, clast, cretry,      \* collector plugins: status, error_count, last_run, plugin_config.retry_count
  ostatus, oerr, osent, oretry,      \* output plugins: status, error_count, sent_count, plugin_config.retry_count
  max_workers, filters, processors, data_items,   \* engine fields
  pc, op, ncalls, escaped,           \* controlling thread: position, the call made last, phase calls made, exception left the last call
  ctask, cres, cseen, all_data,      \* collect phase: futures, their results, futures consumed, all_data
  cpos, ccur,                        \* collect phase: submit loop position; the plugin whose future the result loop holds
  pbatch, processed_data, data0,     \* process phase: input, return value, data_items before the call
  processed0,                        \* what the process_data call before a repeated one returned
  plog,                              \* the filter and processor calls the last process_data call made, in order
  dbatch, dpos, dchecks, futures, rpos,  \* distribute phase: batch, loop position, checks made, futures, result loop position
  cerr0, cstatus0, oerr0, osent0, ostatus0, cstreak,  \* values at the start of the running call; run of failing cycles
  hcalls,                            \* plugins: handle_error calls received
  report,                            \* the dict the last get_status call returned
  collector_plugins, output_plugins, \* engine registries: key and plugin, in dict insertion order
  regarg, regs0,                     \* the plugin given to the last register call; the registries before it
  pconfig,                           \* plugins: whether the plugin's class gives its instances a config attribute
  loader, listing,                   \* PluginLoader: its fields; what os.listdir(plugin_dir) returns
  plugins, plugins0, ndiscover,      \* PluginLoader.plugins; the same before the last discover_plugins; calls made
  configs, configs_ret,              \* PluginLoader.configs; the value load_plugin_configs returned
  clock, data_item, updated0,        \* datetime.now(); a data item; the updated_at it was constructed with
  tags0,                             \* the tags the data item was constructed with
  handler,                           \* a BufferingSMTPHandler: its fields, the mails delivered, the call made last
  wq,                                \* WQPredictionEngine.collect_data: position, the plugins found and their processes
  eq,                                \* a wqEquations object: the levels of its tests, its ensemble level, the calls made
  sfile                              \* the station file of a WQStationAdvisoriesFile, and the create_file call made last

cvars == <<cstatus, cerr, clast, cretry>>
ovars == <<ostatus, oerr, osent, oretry>>
evars == <<max_workers, filters, processors, data_items>>
colvars == <<ctask, cres, cseen, all_data, cpos, ccur>>
provars == <<pbatch, processed_data, data0, processed0, plog>>
distvars == <<dbatch, dpos, dchecks, futures, rpos>>
histvars == <<cerr0, cstatus0, oerr0, osent0, ostatus0, cstreak>>
enginevars == <<cvars, ovars, evars, pc, ncalls, colvars, provars, distvars, histvars, hcalls, report>>
allvars == <<enginevars, op, escaped>>
regvars == <<collector_plugins, output_plugins, regarg, regs0, pconfig>>
loadvars == <<loader, listing, plugins, plugins0, ndiscover, configs, configs_ret>>
itemvars == <<clock, data_item, updated0, tags0>>
libvars == <<handler, wq, eq, sfile>>
auxvars == <<regvars, loadvars, itemvars, libvars>>
vars == <<allvars, auxvars>>

(* ------------------------------ plugins -------------------------------- *)
\* attributes an instance has after BaseCollectorPlugin.__init__ / BaseOutputPlugin.__init__
CollectorAttrs == {"plugin_config", "status", "logger", "last_run", "error_count"}
OutputAttrs == {"plugin_config", "status", "logger", "sent_count", "error_count"}

\* the base classes set no config attribute; a plugin class can add one that
\* holds its PluginConfig
PluginAttrs(p) ==
  (IF p \in Collectors THEN CollectorAttrs ELSE OutputAttrs)
    \cup (IF pconfig[p] THEN {"config"} ELSE {})
\* the plugin classes of the repository add none
NoConfigAttr == [p \in Plugins |-> FALSE]

\* evaluating plugin.config.timeout raises AttributeError unless the instance has a config attribute
TimeoutLookupRaises(attrs) == "config" \notin attrs

is_enabled(status) == status = ENABLED_

\* handle_error: error_count += 1, then status := ERROR once error_count >= retry_count
HandleErrorCount(err) == err + 1
\* a handle_error that sets ERROR when the counter is at retry_count and ENABLED otherwise
HandleErrorStatusAtRetryOnly(status, newerr, retry) == IF newerr = retry THEN ERROR_ ELSE ENABLED_
\* a handle_error that demotes only once the counter has passed retry_count
HandleErrorStatusPastRetry(status, newerr, retry) == IF newerr > retry THEN ERROR_ ELSE status
HandleErrorStatus(status, newerr, retry) == IF newerr >= retry THEN ERROR_ ELSE status

\* get_supported_data_types of the concrete output plugins
SupportedTypes(o) == IF o = "o1" THEN {"x", "y"} ELSE {"x"}
should_send(o, item) == item.item_type \in SupportedTypes(o)

(* ------------------------- filters and processors ---------------------- *)
ApplyFilter(f, item) ==
  IF f = "reject_type_y" THEN item.item_type # "y" ELSE item.item_id # "b"

\* a membership test that looks at the last tag only
InTagsLastOnly(tag, tags) == tags # <<>> /\ tags[Len(tags)] = tag

InTags(tag, tags) == \E i \in 1..Len(tags) : tags[i] = tag
add_tag(item, tag) == IF InTags(tag, item.tags) THEN item ELSE [item EXCEPT !.tags = Append(@, tag)]
ApplyProcessor(p, item) ==
  IF p = "tag_processed" THEN add_tag(item, "processed") ELSE add_tag(item, "seen")

\* a process_data that consults the first registered filter only
PassesFiltersFirstOnly(item, fs) == fs = <<>> \/ ApplyFilter(fs[1], item)

\* process_data, line 148: all(filter_func(data_item) for filter_func in self.filters)
PassesFilters(item, fs) == \A i \in 1..Len(fs) : ApplyFilter(fs[i], item)

\* a processor loop that runs the chain from its last entry to its first
RECURSIVE RunProcessorsReversed(_, _)
RunProcessorsReversed(item, ps) ==
  IF ps = <<>> THEN item
  ELSE ApplyProcessor(Head(ps), RunProcessorsReversed(item, Tail(ps)))

RECURSIVE RunProcessors(_, _)
RunProcessors(item, ps) ==
  IF ps = <<>> THEN item ELSE RunProcessors(ApplyProcessor(Head(ps), item), Tail(ps))

\* process_data: the loop over the batch; the result is the returned list and the index
RECURSIVE ProcessLoop(_, _, _, _, _)
ProcessLoop(batch, fs, ps, out, index) ==
  IF batch = <<>> THEN [processed |-> out, index |-> index]
  ELSE LET item == Head(batch)
       IN IF PassesFilters(item, fs)
          THEN LET done == RunProcessors(item, ps)
               IN ProcessLoop(Tail(batch), fs, ps, Append(out, done),
                              [index EXCEPT ![done.item_id] = done])
          ELSE ProcessLoop(Tail(batch), fs, ps, out, index)

\* a process_data that never overwrites an entry the index already holds
process_data_keep_stored(batch, fs, ps, index) ==
  LET r == ProcessLoop(batch, fs, ps, <<>>, index)
  IN [processed |-> r.processed,
      index |-> [id \in ItemIds |-> IF index[id] # NoItem THEN index[id] ELSE r.index[id]]]

\* a process_data that starts from an empty index at every call
process_data_fresh_index(batch, fs, ps, index) ==
  ProcessLoop(batch, fs, ps, <<>>, [id \in ItemIds |-> NoItem])

process_data(batch, fs, ps, index) == ProcessLoop(batch, fs, ps, <<>>, index)

\* line 148: all() over a generator calls the filters in list order and stops
\* at the first that returns false; pos is the place of the item in the batch
RECURSIVE FilterCalls(_, _, _, _)
FilterCalls(item, fs, pos, idx) ==
  IF idx > Len(fs) THEN <<>>
  ELSE <<[kind |-> "filter", pos |-> pos, idx |-> idx, arg |-> item]>>
       \o (IF ApplyFilter(fs[idx], item) THEN FilterCalls(item, fs, pos, idx + 1) ELSE <<>>)

\* lines 150-151: each processor is called with what the one before returned
RECURSIVE ProcessorCalls(_, _, _, _)
ProcessorCalls(item, ps, pos, idx) ==
  IF idx > Len(ps) THEN <<>>
  ELSE <<[kind |-> "processor", pos |-> pos, idx |-> idx, arg |-> item]>>
       \o ProcessorCalls(ApplyProcessor(ps[idx], item), ps, pos, idx + 1)

\* lines 146-151: the calls process_data makes, item after item
RECURSIVE ProcessCalls(_, _, _, _)
ProcessCalls(batch, fs, ps, pos) ==
  IF pos > Len(batch) THEN <<>>
  ELSE FilterCalls(batch[pos], fs, pos, 1)
       \o (IF PassesFilters(batch[pos], fs) THEN ProcessorCalls(batch[pos], ps, pos, 1) ELSE <<>>)
       \o ProcessCalls(batch, fs, ps, pos + 1)

(* ----------------------------- registries ------------------------------ *)
\* plugin instances a caller can hand to register_collector_plugin and
\* register_output_plugin: plugin_config.name and plugin_config.module; valid is
\* what the validate_config of a concrete output plugin class returns
RegNames == {"", "n1", "n2"}
NoPlugin == [kind |-> "none", name |-> "", module |-> "", valid |-> FALSE]
Registered(kind, key) == [kind |-> kind, name |-> key, module |-> key, valid |-> TRUE]
\* the plugins of CollectorOrder and OutputOrder, and others
CollectorCandidates ==
  [kind : {"collector"}, name : RegNames, module : {"", "c1", "c3"}, valid : {TRUE}]
    \cup {Registered("collector", CollectorOrder[i]) : i \in 1..Len(CollectorOrder)}
OutputCandidates ==
  [kind : {"output"}, name : {"n1"}, module : {"o1", "o3"}, valid : BOOLEAN]
    \cup {Registered("output", OutputOrder[i]) : i \in 1..Len(OutputOrder)}

\* a validate_config that looks at plugin_config.module only
validate_config_module_only(p) == IF p.kind = "collector" THEN p.module # "" ELSE p.valid

\* BaseCollectorPlugin.validate_config: len(name) and len(module); abstract in BaseOutputPlugin
validate_config(p) ==
  IF p.kind = "collector" THEN p.name # "" /\ p.module # "" ELSE p.valid
get_plugin_name(p) == p.module

\* a registry that keeps the first plugin registered under a key
DictSetKeepFirst(d, key, plugin) ==
  IF \E i \in 1..Len(d) : d[i].key = key THEN d
  ELSE Append(d, [key |-> key, plugin |-> plugin])

\* d[key] = plugin on a dict kept as its (key, plugin) pairs in insertion order
DictSet(d, key, plugin) ==
  IF \E i \in 1..Len(d) : d[i].key = key
  THEN [i \in 1..Len(d) |-> IF d[i].key = key THEN [key |-> key, plugin |-> plugin] ELSE d[i]]
  ELSE Append(d, [key |-> key, plugin |-> plugin])

\* __init__, lines 19-20: both registries start empty
InitRegistries ==
  /\ collector_plugins = <<>>
  /\ output_plugins = <<>>
  /\ regarg = NoPlugin
  /\ regs0 = <<collector_plugins, output_plugins>>

\* the registries after register_collector_plugin on the plugins of
\* CollectorOrder and register_output_plugin on those of OutputOrder, in order
RegisteredCollectors ==
  [i \in 1..Len(CollectorOrder) |->
     [key |-> CollectorOrder[i], plugin |-> Registered("collector", CollectorOrder[i])]]
RegisteredOutputs ==
  [i \in 1..Len(OutputOrder) |->
     [key |-> OutputOrder[i], plugin |-> Registered("output", OutputOrder[i])]]
\* collect_all_data, line 117, and distribute_data, line 164, loop over the
\* registries: the phases are modelled for the engine that holds these plugins
AllRegistered ==
  /\ collector_plugins = RegisteredCollectors
  /\ output_plugins = RegisteredOutputs

(* ----------------------------- PluginLoader ---------------------------- *)
\* files of a plugin directory: name, whether exec_module runs through, and the
\* subclasses of base_class the module defines, sorted by name as getmembers does
PyA == [stem |-> "a", ext |-> "py", loads |-> TRUE, classes |-> <<"A">>]
PyB == [stem |-> "b", ext |-> "py", loads |-> TRUE, classes |-> <<"B1", "B2">>]
PyBad == [stem |-> "bad", ext |-> "py", loads |-> FALSE, classes |-> <<>>]
PyInit == [stem |-> "__init__", ext |-> "py", loads |-> TRUE, classes |-> <<>>]
TxtNotes == [stem |-> "notes", ext |-> "txt", loads |-> FALSE, classes |-> <<>>]
PluginFiles == {PyA, PyB, PyBad, PyInit, TxtNotes}
NoRepeat(seq) == \A i, j \in 1..Len(seq) : i # j => seq[i] # seq[j]
\* what os.listdir can return: the files of the directory in any order
Listings == {l \in SeqsUpTo(PluginFiles, MaxFiles) : NoRepeat(l)}

\* paths are sequences of characters; iterating a str yields its characters
PluginDirNames == {<<"p">>, <<"p", "l">>}
ConfigDirArgs == {<<>>, <<<<"q">>>>}
NoLoader == [plugin_dir |-> <<>>, config_dirs |-> <<>>]

\* the JSON files of the directories that exist
\* keys are the keys the parsed object has; enabled, config (the set of its
\* keys) and retry_count are their values
JsonAlpha ==
  [stem |-> "alpha", parses |-> TRUE, keys |-> {"retry_count", "config"},
   enabled |-> TRUE, config |-> {"url"}, retry_count |-> 5]
JsonBeta ==
  [stem |-> "beta", parses |-> FALSE, keys |-> {},
   enabled |-> TRUE, config |-> {}, retry_count |-> 0]
JsonGamma ==
  [stem |-> "gamma", parses |-> TRUE, keys |-> {"enabled"},
   enabled |-> FALSE, config |-> {}, retry_count |-> 0]
DirExists(path) == path \in {<<"p">>, <<"p", "l">>, <<"q">>}
JsonFiles(path) ==
  IF path = <<"p">> THEN <<JsonAlpha, JsonBeta>>
  ELSE IF path = <<"p", "l">> THEN <<JsonGamma>>
  ELSE <<>>
ConfigStems == {"alpha", "beta", "gamma"}
NoConfig == [name |-> "", enabled |-> FALSE, config |-> {}, retry_count |-> 0, timeout |-> 0]
EmptyConfigs == [st \in ConfigStems |-> NoConfig]

InitLoader ==
  /\ loader = NoLoader
  /\ listing = <<>>
  /\ plugins = <<>> /\ plugins0 = <<>> /\ ndiscover = 0
  /\ configs = EmptyConfigs /\ configs_ret = EmptyConfigs

(* ------------------------------ data items ----------------------------- *)
Times == 0..MaxClock
TagNames == {"t1", "t2"}
\* the tag lists a data item is constructed with: the dataclass takes any list
TagLists == SeqsUpTo(TagNames, MaxTags)
MetaKeys == {"k1"}
MetaValues == {"v1", "v2"}
NoDataItem == [created_at |-> -1, updated_at |-> -1, tags |-> <<>>, metadata |-> [k \in MetaKeys |-> "none"]]

(* ------------------------- BufferingSMTPHandler ------------------------ *)
\* logging.DEBUG, logging.INFO
LevelNos == {10, 20}
\* the level of a handler: NOTSET as constructed, or set by setLevel
HandlerLevels == {0, 20}
\* what the SMTP server does with a flush: the step that raises, if any
SmtpOutcomes == {"ok", "connect_fails", "login_fails", "sendmail_fails", "quit_fails"}
\* the threads that use the handler: each calls Handler.handle, which holds
\* the handler's lock around emit, or calls flush directly, as close does
HandlerThreads == {"t1", "t2"}
\* a thread that is in no call of the handler
IdleThread == [pc |-> "idle", call |-> "none", arg |-> 0, outcome |-> "none",
               snap |-> <<>>, raised |-> FALSE]
NoHandler == [made |-> FALSE, capacity |-> 0, level |-> 0, buffer |-> <<>>, mails |-> <<>>,
              emits |-> 0, lock |-> "none", th |-> [t \in HandlerThreads |-> IdleThread]]

(* -------------------------- WQPredictionEngine ------------------------- *)
\* the plugins getAllPlugins() can return, in its order
DataPlugins == 1..MaxDataPlugins
\* no collect_data call has been made
NoCollectData ==
  [pc |-> "idle", n |-> 0, pos |-> 1, raised |-> FALSE,
   init |-> [p \in DataPlugins |-> "false"],
   fin |-> [p \in DataPlugins |-> "returns"],
   proc |-> [p \in DataPlugins |-> "new"],
   joins |-> [p \in DataPlugins |-> 0],
   finalized |-> [p \in DataPlugins |-> FALSE]]

(* ----------------------------- wqEquations ------------------------------ *)
\* predictionLevels
DISABLED == -2
NO_TEST == -1
LOW == 1
MEDIUM == 2
HIGH == 3
\* the values a test's runTest leaves in its predictionLevel
TestLevels == {DISABLED, NO_TEST, LOW, MEDIUM, HIGH}
NoEquations == [tests |-> <<>>, ensemble |-> NO_TEST, runs |-> 0, last |-> "none"]

(* ----------------------- WQStationAdvisoriesFile ----------------------- *)
\* WQSampleData of the station: date_time, as its second and its microsecond,
\* and value
Samples == [sec : 1..MaxDate, us : {0}, value : {1, 2}]
\* wq_samples[station]: any list of samples, in any order
SampleLists == SeqsUpTo(Samples, MaxSamples)
\* no file on disk, no call made
NoStationFile ==
  [exists |-> FALSE, advisories |-> <<>>, calls |-> 0, last |-> "none", samples |-> <<>>,
   present |-> FALSE, same |-> FALSE]

InitItem ==
  /\ clock = 0
  /\ data_item = NoDataItem
  /\ updated0 = -1
  /\ tags0 = <<>>

(* -------------------------------- Init --------------------------------- *)
NoFutures == [c \in Collectors |-> "none"]
NoResults == [c \in Collectors |-> <<>>]
EmptyIndex == [id \in ItemIds |-> NoItem]
\* no get_status call has returned since the last change
NoReport == [running |-> FALSE, total_data_items |-> -1]

\* the plugin objects as their constructors leave them, and the engine fields
\* that __init__ assigns in lines 19-33, before line 36 raises
InitState ==
  /\ cstatus \in [Collectors -> {ENABLED_, DISABLED_}]
  /\ cerr = [c \in Collectors |-> 0]
  /\ clast = [c \in Collectors |-> 0]
  /\ cretry \in [Collectors -> 1..MaxRetry]
  /\ ostatus \in [Outputs -> {ENABLED_, DISABLED_}]
  /\ oerr = [o \in Outputs |-> 0]
  /\ osent = [o \in Outputs |-> 0]
  /\ oretry \in [Outputs -> 1..MaxRetry]
  /\ max_workers \in 1..MaxWorkers
  /\ filters = <<>>
  /\ processors = <<>>
  /\ data_items = EmptyIndex
  /\ pc = "idle" /\ ncalls = 0
  /\ ctask = NoFutures /\ cres = NoResults /\ cseen = {} /\ all_data = <<>>
  /\ cpos = 1 /\ ccur = "none"
  /\ pbatch = <<>> /\ processed_data = <<>> /\ data0 = EmptyIndex /\ processed0 = <<>>
  /\ plog = <<>>
  /\ dbatch = <<>> /\ dpos = 1 /\ dchecks = <<>> /\ futures = <<>> /\ rpos = 1
  /\ cerr0 = cerr /\ cstatus0 = cstatus /\ oerr0 = oerr /\ osent0 = osent /\ ostatus0 = ostatus
  /\ cstreak = [c \in Collectors |-> IF cstatus[c] = ENABLED_ THEN 0 ELSE -1]
  /\ hcalls = [p \in Plugins |-> 0]
  /\ report = NoReport
  /\ InitLoader
  /\ InitItem
  /\ handler = NoHandler
  /\ wq = NoCollectData
  /\ eq = NoEquations
  /\ sfile = NoStationFile

\* GenericProcessingEngine.__init__, lines 17-42: line 36 calls
\* PluginLoader.find_all_config_directories, which the class does not have, so
\* the constructor raises AttributeError with the registries empty and
\* config_dirs and plugin_configs never assigned
Init ==
  /\ InitState
  /\ InitRegistries
  /\ pconfig = NoConfigAttr
  /\ op = "__init__"
  /\ escaped = TRUE

\* the engine after the four register calls that give it the plugins of
\* CollectorOrder and OutputOrder; the last of them returned
RegisteredEngine ==
  /\ InitState
  /\ AllRegistered
  /\ regarg = Registered("output", OutputOrder[Len(OutputOrder)])
  /\ regs0 = <<RegisteredCollectors, SubSeq(RegisteredOutputs, 1, Len(OutputOrder) - 1)>>
  /\ op = "register_output_plugin"
  /\ escaped = FALSE

\* the same, the plugins of classes that add no config attribute, as those of
\* the repository
InitRegistered ==
  /\ RegisteredEngine
  /\ pconfig = NoConfigAttr

\* line 36 is the only assignment of self.config_dirs, and it raises
ConfigDirsAssigned == FALSE

(* --------------------------- the worker pool --------------------------- *)
\* a call that has hung keeps its worker thread
\* nor does a thread that is still in the handle_error call of line 139
CollectBusy ==
  Cardinality({c \in Collectors : ctask[c] \in {"taken", "running", "hung", "he_check", "he_return"}})
\* the threads of the pool that are in a plugin call or in the handle_error
\* call after it
SendBusy ==
  Cardinality({k \in 1..Len(futures) : futures[k].st \in {"running", "hung", "he_write", "he_check", "he_return"}})
CollectorIndex(c) == CHOOSE i \in 1..Len(CollectorOrder) : CollectorOrder[i] = c
\* the executor's work queue is first in, first out
FirstQueuedCollector(c) ==
  /\ ctask[c] = "queued"
  /\ \A d \in Collectors : ctask[d] = "queued" => CollectorIndex(c) <= CollectorIndex(d)
FirstQueuedSend(k) ==
  /\ futures[k].st = "queued"
  /\ \A j \in 1..(k - 1) : futures[j].st # "queued"

(* ---------------------------- collect phase ---------------------------- *)
\* a collect_all_data that submits every registered plugin
SubmitCollectorsAnyStatus == [c \in Collectors |-> "queued"]

\* collect_all_data, lines 118-120: what an iteration of the submit loop makes
\* of the plugin it is at: an enabled plugin gets a future
SubmitCollectors == [c \in Collectors |-> IF is_enabled(cstatus[c]) THEN "queued" ELSE "none"]

BeginCall(name, limit) ==
  /\ pc = "idle"
  /\ ncalls < limit
  /\ ncalls' = ncalls + 1
  /\ op' = name
  /\ escaped' = FALSE
  /\ cerr0' = cerr /\ cstatus0' = cstatus /\ oerr0' = oerr /\ osent0' = osent /\ ostatus0' = ostatus
  /\ report' = NoReport

\* the locals of a phase no call is in
NoCollect ==
  /\ ctask' = NoFutures /\ cres' = NoResults /\ cseen' = {} /\ all_data' = <<>>
  /\ cpos' = 1 /\ ccur' = "none"
NoProcess ==
  /\ pbatch' = <<>> /\ processed_data' = <<>> /\ data0' = EmptyIndex /\ processed0' = <<>>
  /\ plog' = <<>>
NoDistribute == dbatch' = <<>> /\ dpos' = 1 /\ dchecks' = <<>> /\ futures' = <<>> /\ rpos' = 1

\* collect_all_data, lines 111-115: all_data = [], the pool is created,
\* future_to_plugin = {}
StartCollect ==
  /\ AllRegistered
  /\ ctask' = NoFutures
  /\ cres' = NoResults
  /\ cseen' = {}
  /\ all_data' = <<>>
  /\ cpos' = 1
  /\ ccur' = "none"
  /\ pc' = "collect_submit"
  /\ NoProcess /\ NoDistribute
  /\ UNCHANGED <<cvars, ovars, evars, cstreak>>
  /\ UNCHANGED hcalls
  /\ UNCHANGED auxvars

CallCollectAllDataUpTo(limit) == BeginCall("collect_all_data", limit) /\ StartCollect
CallCollectAllData == CallCollectAllDataUpTo(MaxCycles)
CallRunOnceUpTo(limit) == BeginCall("run_once", limit) /\ StartCollect
CallRunOnce == CallRunOnceUpTo(MaxCycles)

\* collect_all_data, lines 117-120: one iteration of the submit loop over
\* collector_plugins.items(); the pool threads run between two iterations.
\* After the last iteration the controlling thread is in as_completed
CollectSubmit ==
  /\ pc = "collect_submit"
  /\ cpos <= Len(collector_plugins)
  /\ LET c == collector_plugins[cpos].key
     IN ctask' = [ctask EXCEPT ![c] = SubmitCollectors[c]]
  /\ cpos' = cpos + 1
  /\ pc' = IF cpos = Len(collector_plugins) THEN "collect_wait" ELSE "collect_submit"
  /\ UNCHANGED <<cvars, ovars, evars, op, ncalls, escaped,
                 cres, cseen, all_data, ccur, provars, distvars, histvars>>
  /\ UNCHANGED <<hcalls, report>>
  /\ UNCHANGED auxvars

\* a pool with a thread for every task it is given
PoolSizeOnePerTask == Len(CollectorOrder) + Len(futures)

\* collect_all_data, line 114, and distribute_data, line 160:
\* ThreadPoolExecutor(max_workers=self.max_workers)
PoolSize == max_workers

\* a pool thread takes the oldest queued _collect_from_plugin task from the
\* executor's work queue
WorkerCollectTake(c) ==
  /\ FirstQueuedCollector(c)
  /\ CollectBusy < PoolSize
  /\ ctask' = [ctask EXCEPT ![c] = "taken"]
  /\ UNCHANGED <<cvars, ovars, evars, pc, op, ncalls, escaped,
                 cres, cseen, all_data, cpos, ccur, provars, distvars, histvars>>
  /\ UNCHANGED <<hcalls, report>>
  /\ UNCHANGED auxvars

\* _collect_from_plugin, line 136: the thread that holds the task sets last_run
WorkerCollectStart(c) ==
  /\ ctask[c] = "taken"
  /\ ctask' = [ctask EXCEPT ![c] = "running"]
  /\ clast' = [clast EXCEPT ![c] = ncalls]
  /\ UNCHANGED <<cstatus, cerr, cretry, ovars, evars, pc, op, ncalls, escaped,
                 cres, cseen, all_data, cpos, ccur, provars, distvars, histvars>>
  /\ UNCHANGED <<hcalls, report>>
  /\ UNCHANGED auxvars

\* _collect_from_plugin, line 137: collect_data returns a list
WorkerCollectReturn(c, items) ==
  /\ ctask[c] = "running"
  /\ ctask' = [ctask EXCEPT ![c] = "ok"]
  /\ cres' = [cres EXCEPT ![c] = items]
  /\ cstreak' = [cstreak EXCEPT ![c] = -1]
  /\ UNCHANGED <<cvars, ovars, evars, pc, op, ncalls, escaped, cseen, all_data, cpos, ccur,
                 provars, distvars, cerr0, cstatus0, oerr0, osent0, ostatus0>>
  /\ UNCHANGED <<hcalls, report>>
  /\ UNCHANGED auxvars

\* _collect_from_plugin, lines 138-139: collect_data raises and handle_error is
\* entered; plugin_base.py line 127: error_count += 1. The read and the store
\* are one step: a collector has one future per call and the controlling
\* thread touches the plugin only after that future is done, so no other
\* thread writes error_count in between
WorkerCollectRaise(c) ==
  /\ ctask[c] = "running"
  /\ ctask' = [ctask EXCEPT ![c] = "he_check"]
  /\ cerr' = [cerr EXCEPT ![c] = HandleErrorCount(@)]
  /\ cstreak' = [cstreak EXCEPT ![c] = IF @ >= 0 THEN @ + 1 ELSE @]
  /\ UNCHANGED <<cstatus, clast, cretry, ovars, evars, pc, op, ncalls, escaped,
                 cres, cseen, all_data, cpos, ccur,
                 provars, distvars, cerr0, cstatus0, oerr0, osent0, ostatus0>>
  /\ hcalls' = [hcalls EXCEPT ![c] = @ + 1]
  /\ UNCHANGED report
  /\ UNCHANGED auxvars

\* plugin_base.py lines 129-130, after the logger.error call of line 128:
\* error_count is read again and compared with retry_count, and set_status
\* stores ERROR; the thread is still inside handle_error, its future not done
WorkerCollectErrCheck(c) ==
  /\ ctask[c] = "he_check"
  /\ cstatus' = [cstatus EXCEPT ![c] = HandleErrorStatus(@, cerr[c], cretry[c])]
  /\ ctask' = [ctask EXCEPT ![c] = "he_return"]
  /\ UNCHANGED <<cerr, clast, cretry, ovars, evars, pc, op, ncalls, escaped,
                 cres, cseen, all_data, cpos, ccur, provars, distvars, histvars>>
  /\ UNCHANGED <<hcalls, report>>
  /\ UNCHANGED auxvars

\* _collect_from_plugin, line 140: handle_error has returned; return [] and
\* the future is done
WorkerCollectErrReturn(c) ==
  /\ ctask[c] = "he_return"
  /\ ctask' = [ctask EXCEPT ![c] = "raised"]
  /\ cres' = [cres EXCEPT ![c] = <<>>]
  /\ UNCHANGED <<cvars, ovars, evars, pc, op, ncalls, escaped,
                 cseen, all_data, cpos, ccur, provars, distvars, histvars>>
  /\ UNCHANGED <<hcalls, report>>
  /\ UNCHANGED auxvars

\* collect_data never returns
WorkerCollectHang(c) ==
  /\ ctask[c] = "running"
  /\ ctask' = [ctask EXCEPT ![c] = "hung"]
  /\ cstreak' = [cstreak EXCEPT ![c] = -1]
  /\ UNCHANGED <<cvars, ovars, evars, pc, op, ncalls, escaped, cres, cseen, all_data, cpos, ccur,
                 provars, distvars, cerr0, cstatus0, oerr0, osent0, ostatus0>>
  /\ UNCHANGED <<hcalls, report>>
  /\ UNCHANGED auxvars

\* an as_completed that also yields the future of a call that never returns
CollectDoneOrHung(c) == ctask[c] \in {"ok", "raised", "hung"}

\* as_completed yields a future when its call has returned or raised
CollectDone(c) == ctask[c] \in {"ok", "raised"}

\* collect_all_data, lines 122-129: as_completed hands over a finished future;
\* the timeout argument of future.result is evaluated inside the try: the
\* lookup raises and handle_error is entered with error_count += 1
\* (plugin_base.py line 127), or the result is added to all_data
MainCollectNext(c) ==
  /\ pc = "collect_wait"
  /\ CollectDone(c)
  /\ c \notin cseen
  /\ IF TimeoutLookupRaises(PluginAttrs(c))
     THEN /\ cerr' = [cerr EXCEPT ![c] = HandleErrorCount(@)]
          /\ hcalls' = [hcalls EXCEPT ![c] = @ + 1]
          /\ ccur' = c
          /\ pc' = "collect_he_check"
          /\ UNCHANGED <<all_data, cseen>>
     ELSE /\ all_data' = all_data \o cres[c]
          /\ cseen' = cseen \cup {c}
          /\ UNCHANGED <<cerr, hcalls, ccur, pc>>
  /\ UNCHANGED <<cstatus, clast, cretry, ovars, evars, op, ncalls, escaped, ctask, cres, cpos,
                 provars, distvars, histvars>>
  /\ UNCHANGED report
  /\ UNCHANGED auxvars

\* plugin_base.py lines 129-130 in the controlling thread, after the
\* logger.error call of line 128; then the next future of as_completed
MainCollectErrCheck ==
  /\ pc = "collect_he_check"
  /\ cstatus' = [cstatus EXCEPT ![ccur] = HandleErrorStatus(@, cerr[ccur], cretry[ccur])]
  /\ cseen' = cseen \cup {ccur}
  /\ ccur' = "none"
  /\ pc' = "collect_wait"
  /\ UNCHANGED <<cerr, clast, cretry, ovars, evars, op, ncalls, escaped, ctask, cres, all_data, cpos,
                 provars, distvars, histvars>>
  /\ UNCHANGED <<hcalls, report>>
  /\ UNCHANGED auxvars

Submitted == {c \in Collectors : ctask[c] # "none"}

\* collect_all_data, line 131: every future was handed over; the pool is joined
\* collect_all_data called directly returns all_data
CollectReturn ==
  /\ pc = "collect_wait"
  /\ op = "collect_all_data"
  /\ cseen = Submitted
  /\ pc' = "idle"
  /\ UNCHANGED <<cvars, ovars, evars, op, ncalls, escaped, colvars, provars, distvars, histvars>>
  /\ UNCHANGED <<hcalls, report>>
  /\ UNCHANGED auxvars

(* ---------------------------- process phase ---------------------------- *)
\* process_data called directly with a batch
\* process_data called directly; limit bounds the number of calls
ProcessDataCall(batch, limit) ==
  /\ BeginCall("process_data", limit)
  /\ pbatch' = batch
  /\ data0' = data_items
  /\ processed0' = <<>>
  /\ plog' = ProcessCalls(batch, filters, processors, 1)
  /\ LET r == process_data(batch, filters, processors, data_items)
     IN processed_data' = r.processed /\ data_items' = r.index
  /\ pc' = "idle"
  /\ NoCollect /\ NoDistribute
  /\ UNCHANGED <<cvars, ovars, max_workers, filters, processors, cstreak>>
  /\ UNCHANGED hcalls
  /\ UNCHANGED auxvars

CallProcessData(batch) == ProcessDataCall(batch, MaxProcessCalls)

\* add_filter / add_processor
AddFilter(f) ==
  /\ pc = "idle"
  /\ Len(filters) < MaxFilters
  /\ filters' = Append(filters, f)
  /\ op' = "add_filter"
  /\ plog' = <<>>
  /\ UNCHANGED <<cvars, ovars, max_workers, processors, data_items, pc, ncalls, escaped,
                 colvars, pbatch, processed_data, data0, processed0, distvars, histvars>>
  /\ report' = NoReport
  /\ UNCHANGED hcalls
  /\ UNCHANGED auxvars

\* add_processor; limit bounds the length of the chain
AddProcessorUpTo(p, limit) ==
  /\ pc = "idle"
  /\ Len(processors) < limit
  /\ processors' = Append(processors, p)
  /\ op' = "add_processor"
  /\ plog' = <<>>
  /\ UNCHANGED <<cvars, ovars, max_workers, filters, data_items, pc, ncalls, escaped,
                 colvars, pbatch, processed_data, data0, processed0, distvars, histvars>>
  /\ report' = NoReport
  /\ UNCHANGED hcalls
  /\ UNCHANGED auxvars

AddProcessor(p) == AddProcessorUpTo(p, MaxProcessors)

\* process_data called once more with the batch of the call before it
CallProcessDataAgain ==
  /\ pc = "idle"
  /\ op = "process_data"
  /\ op' = "process_data_again"
  /\ processed0' = processed_data
  /\ data0' = data_items
  /\ plog' = ProcessCalls(pbatch, filters, processors, 1)
  /\ LET r == process_data(pbatch, filters, processors, data_items)
     IN processed_data' = r.processed /\ data_items' = r.index
  /\ report' = NoReport
  /\ UNCHANGED <<cvars, ovars, max_workers, filters, processors, pc, ncalls, escaped,
                 colvars, pbatch, distvars, histvars, hcalls, auxvars>>

(* --------------------------- distribute phase -------------------------- *)
NumOutputs == Len(OutputOrder)
NumPairs(batch) == Len(batch) * NumOutputs
PairItem(pos) == ((pos - 1) \div NumOutputs) + 1
PairPlugin(pos) == OutputOrder[((pos - 1) % NumOutputs) + 1]

\* distribute_data, lines 160-161: the pool is created, futures = []
StartDistribute(batch) ==
  /\ dbatch' = batch
  /\ dpos' = 1
  /\ dchecks' = <<>>
  /\ futures' = <<>>
  /\ rpos' = 1
  /\ pc' = "dist_submit"

CallDistributeData(batch) ==
  /\ AllRegistered
  /\ BeginCall("distribute_data", MaxDistCalls)
  /\ StartDistribute(batch)
  /\ NoCollect /\ NoProcess
  /\ UNCHANGED <<cvars, ovars, evars, cstreak>>
  /\ UNCHANGED hcalls
  /\ UNCHANGED auxvars

\* run_once, lines 191-200: collect_all_data has returned; process_data on the
\* result, then distribute_data when something survived
RunOnceProcess ==
  /\ pc = "collect_wait"
  /\ op = "run_once"
  /\ cseen = Submitted
  /\ pbatch' = all_data
  /\ data0' = data_items
  /\ processed0' = <<>>
  /\ plog' = ProcessCalls(all_data, filters, processors, 1)
  /\ LET r == process_data(all_data, filters, processors, data_items)
     IN processed_data' = r.processed /\ data_items' = r.index
  /\ IF processed_data' # <<>>
     THEN StartDistribute(processed_data')
     ELSE pc' = "idle" /\ UNCHANGED distvars
  /\ UNCHANGED <<cvars, ovars, max_workers, filters, processors, op, ncalls, escaped,
                 colvars, histvars>>
  /\ UNCHANGED <<hcalls, report>>
  /\ UNCHANGED auxvars

\* distribute_data, line 165: plugin.is_enabled() and plugin.should_send(data_item)
ShouldSubmit(status, o, item) == is_enabled(status) /\ should_send(o, item)

\* distribute_data, lines 163-167: one (item, plugin) step of the nested loops
DistCheck ==
  /\ pc = "dist_submit"
  /\ dpos <= NumPairs(dbatch)
  /\ LET o == PairPlugin(dpos)
         i == PairItem(dpos)
     IN /\ dchecks' = Append(dchecks, [plugin |-> o, item |-> i, status |-> ostatus[o]])
        /\ futures' = IF ShouldSubmit(ostatus[o], o, dbatch[i])
                      THEN Append(futures, [plugin |-> o, item |-> i, st |-> "queued",
                                            wread |-> -1, mread |-> -1])
                      ELSE futures
  /\ dpos' = dpos + 1
  /\ UNCHANGED <<cvars, ovars, evars, pc, op, ncalls, escaped, colvars, provars,
                 dbatch, rpos, histvars>>
  /\ UNCHANGED <<hcalls, report>>
  /\ UNCHANGED auxvars

\* line 165 with a should_send override that raises: the exception leaves the
\* loops; the with block joins the pool before it leaves distribute_data
DistCheckRaise ==
  /\ pc = "dist_submit"
  /\ dpos <= NumPairs(dbatch)
  /\ is_enabled(ostatus[PairPlugin(dpos)])
  /\ pc' = "dist_abort"
  /\ UNCHANGED <<cvars, ovars, evars, op, ncalls, escaped, colvars, provars, distvars, histvars>>
  /\ UNCHANGED <<hcalls, report>>
  /\ UNCHANGED auxvars

\* the nested loops are over: the result loop starts
DistSubmitDone ==
  /\ pc = "dist_submit"
  /\ dpos > NumPairs(dbatch)
  /\ pc' = "dist_results"
  /\ UNCHANGED <<cvars, ovars, evars, op, ncalls, escaped, colvars, provars, distvars, histvars>>
  /\ UNCHANGED <<hcalls, report>>
  /\ UNCHANGED auxvars

SetFuture(k, st) == [futures EXCEPT ![k].st = st]

\* a pool thread takes the oldest queued _send_via_plugin task and calls send_data
WorkerSendStart(k) ==
  /\ FirstQueuedSend(k)
  /\ SendBusy < PoolSize
  /\ futures' = SetFuture(k, "running")
  /\ UNCHANGED <<cvars, ovars, evars, pc, op, ncalls, escaped, colvars, provars,
                 dbatch, dpos, dchecks, rpos, histvars>>
  /\ UNCHANGED <<hcalls, report>>
  /\ UNCHANGED auxvars

\* _send_via_plugin, line 181: send_data returns true or false
WorkerSendReturn(k, success) ==
  /\ futures[k].st = "running"
  /\ futures' = SetFuture(k, IF success THEN "true" ELSE "false")
  /\ UNCHANGED <<cvars, ovars, evars, pc, op, ncalls, escaped, colvars, provars,
                 dbatch, dpos, dchecks, rpos, histvars>>
  /\ UNCHANGED <<hcalls, report>>
  /\ UNCHANGED auxvars

\* send_data never returns
WorkerSendHang(k) ==
  /\ futures[k].st = "running"
  /\ futures' = SetFuture(k, "hung")
  /\ UNCHANGED <<cvars, ovars, evars, pc, op, ncalls, escaped, colvars, provars,
                 dbatch, dpos, dchecks, rpos, histvars>>
  /\ UNCHANGED <<hcalls, report>>
  /\ UNCHANGED auxvars

\* the result loop is over: the with block joins the pool
DistResultsDone ==
  /\ pc = "dist_results"
  /\ rpos > Len(futures)
  /\ pc' = "dist_join"
  /\ UNCHANGED <<cvars, ovars, evars, op, ncalls, escaped, colvars, provars, distvars, histvars>>
  /\ UNCHANGED <<hcalls, report>>
  /\ UNCHANGED auxvars

\* a with block that does not wait for the calls still in the pool
AllSendsOverNoJoin == TRUE

\* every submitted send_data call has returned or raised
AllSendsOver == \A k \in 1..Len(futures) : futures[k].st \in {"true", "false", "raised"}

\* ThreadPoolExecutor.__exit__: shutdown(wait=True), then distribute_data is left,
\* by return or with the exception of should_send
DistJoin ==
  /\ pc \in {"dist_join", "dist_abort"}
  /\ AllSendsOver
  /\ escaped' = (pc = "dist_abort")
  /\ pc' = "idle"
  /\ UNCHANGED <<cvars, ovars, evars, op, ncalls, colvars, provars, distvars, histvars>>
  /\ UNCHANGED <<hcalls, report>>
  /\ UNCHANGED auxvars

(* ------------- handle_error as the steps the threads take -------------- *)
\* _send_via_plugin, lines 182-183: send_data raises and handle_error is
\* entered; self.error_count += 1 (plugin_base.py line 184) first reads the
\* attribute
WorkerSendRaise(k) ==
  /\ futures[k].st = "running"
  /\ futures' = [futures EXCEPT ![k].st = "he_write", ![k].wread = oerr[futures[k].plugin]]
  /\ hcalls' = [hcalls EXCEPT ![futures[k].plugin] = @ + 1]
  /\ UNCHANGED <<cvars, ovars, evars, pc, op, ncalls, escaped, colvars, provars,
                 dbatch, dpos, dchecks, rpos, histvars>>
  /\ UNCHANGED report
  /\ UNCHANGED auxvars

\* line 184: the value read, plus one, is stored
WorkerErrWrite(k) ==
  /\ futures[k].st = "he_write"
  /\ oerr' = [oerr EXCEPT ![futures[k].plugin] = HandleErrorCount(futures[k].wread)]
  /\ futures' = SetFuture(k, "he_check")
  /\ UNCHANGED <<cvars, ostatus, osent, oretry, evars, pc, op, ncalls, escaped, colvars, provars,
                 dbatch, dpos, dchecks, rpos, histvars>>
  /\ UNCHANGED <<hcalls, report>>
  /\ UNCHANGED auxvars

\* lines 186-187: error_count is read again and compared with retry_count,
\* and set_status stores ERROR; the thread is still inside handle_error, its
\* future not done
WorkerErrCheck(k) ==
  /\ futures[k].st = "he_check"
  /\ LET o == futures[k].plugin
     IN ostatus' = [ostatus EXCEPT ![o] = HandleErrorStatus(@, oerr[o], oretry[o])]
  /\ futures' = SetFuture(k, "he_return")
  /\ UNCHANGED <<cvars, oerr, osent, oretry, evars, pc, op, ncalls, escaped, colvars, provars,
                 dbatch, dpos, dchecks, rpos, histvars>>
  /\ UNCHANGED <<hcalls, report>>
  /\ UNCHANGED auxvars

\* _send_via_plugin, line 184: handle_error has returned; return False and
\* the future is done
WorkerErrReturn(k) ==
  /\ futures[k].st = "he_return"
  /\ futures' = SetFuture(k, "raised")
  /\ UNCHANGED <<cvars, ovars, evars, pc, op, ncalls, escaped, colvars, provars,
                 dbatch, dpos, dchecks, rpos, histvars>>
  /\ UNCHANGED <<hcalls, report>>
  /\ UNCHANGED auxvars

\* the call of a future has returned or raised and its result is set
SendDone(k) == futures[k].st \in {"true", "false", "raised"}

\* distribute_data, lines 169-176, for the next future of the list; the
\* timeout argument of future.result is evaluated inside the try, before any
\* waiting: the lookup raises or the wait times out and handle_error is
\* entered with its read of error_count, or the result is counted
MainDistResult ==
  /\ pc = "dist_results"
  /\ rpos <= Len(futures)
  /\ LET o == futures[rpos].plugin
         st == futures[rpos].st
     IN IF TimeoutLookupRaises(PluginAttrs(o)) \/ ~SendDone(rpos)
        THEN /\ futures' = [futures EXCEPT ![rpos].mread = oerr[o]]
             /\ hcalls' = [hcalls EXCEPT ![o] = @ + 1]
             /\ pc' = "dist_he_write"
             /\ UNCHANGED <<osent, rpos>>
        ELSE /\ osent' = [osent EXCEPT ![o] = IF st = "true" THEN @ + 1 ELSE @]
             /\ rpos' = rpos + 1
             /\ UNCHANGED <<futures, hcalls, pc>>
  /\ UNCHANGED <<cvars, oerr, ostatus, oretry, evars, op, ncalls, escaped, colvars, provars,
                 dbatch, dpos, dchecks, histvars>>
  /\ UNCHANGED report
  /\ UNCHANGED auxvars

\* plugin_base.py line 184 in the controlling thread: the store
MainErrWrite ==
  /\ pc = "dist_he_write"
  /\ oerr' = [oerr EXCEPT ![futures[rpos].plugin] = HandleErrorCount(futures[rpos].mread)]
  /\ pc' = "dist_he_check"
  /\ UNCHANGED <<cvars, ostatus, osent, oretry, evars, op, ncalls, escaped, colvars, provars,
                 distvars, histvars>>
  /\ UNCHANGED <<hcalls, report>>
  /\ UNCHANGED auxvars

\* plugin_base.py lines 186-187 in the controlling thread, then the next future
MainErrCheck ==
  /\ pc = "dist_he_check"
  /\ LET o == futures[rpos].plugin
     IN ostatus' = [ostatus EXCEPT ![o] = HandleErrorStatus(@, oerr[o], oretry[o])]
  /\ rpos' = rpos + 1
  /\ pc' = "dist_results"
  /\ UNCHANGED <<cvars, oerr, osent, oretry, evars, op, ncalls, escaped, colvars, provars,
                 dbatch, dpos, dchecks, futures, histvars>>
  /\ UNCHANGED <<hcalls, report>>
  /\ UNCHANGED auxvars

(* ------------------------------ set_status ----------------------------- *)
SetCollectorStatusUpTo(c, status, limit) ==
  /\ pc = "idle"
  /\ ncalls < limit
  /\ cstatus[c] # status
  /\ cstatus' = [cstatus EXCEPT ![c] = status]
  /\ cstreak' = [cstreak EXCEPT ![c] = -1]
  /\ op' = "set_status"
  /\ UNCHANGED <<cerr, clast, cretry, ovars, evars, pc, ncalls, escaped, colvars,
                 provars, distvars, cerr0, cstatus0, oerr0, osent0, ostatus0>>
  /\ report' = NoReport
  /\ UNCHANGED hcalls
  /\ UNCHANGED auxvars

SetCollectorStatus(c, status) == SetCollectorStatusUpTo(c, status, MaxCycles)

SetOutputStatus(o, status) ==
  /\ pc = "idle"
  /\ ncalls < MaxDistCalls
  /\ ostatus[o] # status
  /\ ostatus' = [ostatus EXCEPT ![o] = status]
  /\ op' = "set_status"
  /\ UNCHANGED <<cvars, oerr, osent, oretry, evars, pc, ncalls, escaped, colvars,
                 provars, distvars, histvars>>
  /\ report' = NoReport
  /\ UNCHANGED hcalls
  /\ UNCHANGED auxvars

(* ----------------------- handle_error, get_status ---------------------- *)
\* BaseCollectorPlugin.handle_error / BaseOutputPlugin.handle_error called on a plugin
CollectorHandleError(c) ==
  /\ pc = "idle"
  /\ hcalls[c] <= MaxRetry
  /\ cerr' = [cerr EXCEPT ![c] = HandleErrorCount(@)]
  /\ cstatus' = [cstatus EXCEPT ![c] = HandleErrorStatus(@, HandleErrorCount(cerr[c]), cretry[c])]
  /\ hcalls' = [hcalls EXCEPT ![c] = @ + 1]
  /\ op' = "handle_error"
  /\ report' = NoReport
  /\ UNCHANGED <<clast, cretry, ovars, evars, pc, ncalls, escaped, colvars, provars,
                 distvars, histvars, auxvars>>

OutputHandleError(o) ==
  /\ pc = "idle"
  /\ hcalls[o] <= MaxRetry
  /\ oerr' = [oerr EXCEPT ![o] = HandleErrorCount(@)]
  /\ ostatus' = [ostatus EXCEPT ![o] = HandleErrorStatus(@, HandleErrorCount(oerr[o]), oretry[o])]
  /\ hcalls' = [hcalls EXCEPT ![o] = @ + 1]
  /\ op' = "handle_error"
  /\ report' = NoReport
  /\ UNCHANGED <<cvars, osent, oretry, evars, pc, ncalls, escaped, colvars, provars,
                 distvars, histvars, auxvars>>

\* handle_error called on a plugin that is in ERROR
FurtherCollectorError(c) == cstatus[c] = ERROR_ /\ CollectorHandleError(c)
FurtherOutputError(o) == ostatus[o] = ERROR_ /\ OutputHandleError(o)

\* get_status, lines 212-217: status.value, last_run (0 stands for None), error_count
CollectorReport(c) == [status |-> cstatus[c], last_run |-> clast[c], error_count |-> cerr[c]]
\* get_status, lines 221-226
OutputReport(o) ==
  [status |-> ostatus[o], supported_types |-> SupportedTypes(o),
   sent_count |-> osent[o], error_count |-> oerr[o]]
\* get_status, lines 206-229, as the dict it builds when every attribute it
\* reads exists; running is set in __init__ only
StatusReport ==
  [running |-> FALSE,
   total_data_items |-> Cardinality({id \in ItemIds : data_items[id] # NoItem}),
   collector_plugins |-> [c \in Collectors |-> CollectorReport(c)],
   output_plugins |-> [o \in Outputs |-> OutputReport(o)]]

\* get_status: line 210 reads self.config_dirs; on the engine __init__ leaves
\* the attribute does not exist and AttributeError leaves the call
GetStatus ==
  /\ pc = "idle"
  /\ IF ConfigDirsAssigned
     THEN report' = StatusReport /\ escaped' = FALSE
     ELSE report' = NoReport /\ escaped' = TRUE
  /\ op' = "get_status"
  /\ UNCHANGED <<cvars, ovars, evars, pc, ncalls, colvars, provars, distvars,
                 histvars, hcalls, auxvars>>

(* ----------------------------- registration ---------------------------- *)
\* register_collector_plugin, lines 84-91
RegisterCollector(p) ==
  /\ pc = "idle"
  /\ op' = "register_collector_plugin"
  /\ regarg' = p
  /\ regs0' = <<collector_plugins, output_plugins>>
  /\ IF ~validate_config(p)
     THEN escaped' = TRUE /\ UNCHANGED collector_plugins
     ELSE /\ escaped' = FALSE
          /\ collector_plugins' = DictSet(collector_plugins, get_plugin_name(p), p)
  /\ UNCHANGED <<enginevars, output_plugins, pconfig, loadvars, itemvars, libvars>>

\* register_output_plugin, lines 93-100
RegisterOutput(p) ==
  /\ pc = "idle"
  /\ op' = "register_output_plugin"
  /\ regarg' = p
  /\ regs0' = <<collector_plugins, output_plugins>>
  /\ IF ~validate_config(p)
     THEN escaped' = TRUE /\ UNCHANGED output_plugins
     ELSE /\ escaped' = FALSE
          /\ output_plugins' = DictSet(output_plugins, get_plugin_name(p), p)
  /\ UNCHANGED <<enginevars, collector_plugins, pconfig, loadvars, itemvars, libvars>>

(* ------------------------- PluginLoader methods ------------------------ *)
\* PluginLoader.__init__, lines 21-30: config_dirs is made the plugin_dir str
\* itself, and extend on a str raises AttributeError
NewLoader(dir, cdirs, files) ==
  /\ pc = "idle"
  /\ loader = NoLoader
  /\ op' = "PluginLoader"
  /\ IF Len(cdirs) > 0
     THEN escaped' = TRUE /\ UNCHANGED <<loader, listing>>
     ELSE /\ escaped' = FALSE
          /\ loader' = [plugin_dir |-> dir, config_dirs |-> dir]
          /\ listing' = files
  /\ UNCHANGED <<enginevars, regvars, plugins, plugins0, ndiscover, configs, configs_ret, itemvars, libvars>>

\* discover_plugins, line 98: filename.endswith(".py") and not filename.startswith("__")
StartsWithDunder(stem) == stem = "__init__"
IsPluginFile(f) == f.ext = "py" /\ ~StartsWithDunder(f.stem)

\* discover_plugins, lines 97-103 with _load_plugin, lines 105-111: exec_module
\* is called outside any try
\* _load_plugin, lines 105-111: exec_module runs the file again at every call,
\* so the classes it returns are new objects, told apart here by the call number
LoadedClasses(f, call) == [i \in 1..Len(f.classes) |-> [name |-> f.classes[i], load |-> call]]

RECURSIVE DiscoverLoop(_, _, _)
DiscoverLoop(files, found, call) ==
  IF files = <<>> THEN [plugins |-> found, raised |-> FALSE]
  ELSE LET f == Head(files)
       IN IF ~IsPluginFile(f) THEN DiscoverLoop(Tail(files), found, call)
          ELSE IF ~f.loads THEN [plugins |-> found, raised |-> TRUE]
          ELSE DiscoverLoop(Tail(files), found \o LoadedClasses(f, call), call)

DiscoverPlugins ==
  /\ pc = "idle"
  /\ loader # NoLoader
  /\ ndiscover < MaxDiscover
  /\ ndiscover' = ndiscover + 1
  /\ op' = "discover_plugins"
  /\ plugins0' = plugins
  /\ LET r == DiscoverLoop(listing, plugins, ndiscover + 1)
     IN plugins' = r.plugins /\ escaped' = r.raised
  /\ UNCHANGED <<enginevars, regvars, loader, listing, configs, configs_ret, itemvars, libvars>>

\* load_plugin_configs, lines 56-63: PluginConfig from config_data.get(key, default)
DefaultRetryCount == 3
DefaultTimeout == 30
PluginConfigOf(f) ==
  [name |-> f.stem,
   enabled |-> IF "enabled" \in f.keys THEN f.enabled ELSE TRUE,
   config |-> IF "config" \in f.keys THEN f.config ELSE {},
   retry_count |-> IF "retry_count" \in f.keys THEN f.retry_count ELSE DefaultRetryCount,
   timeout |-> DefaultTimeout]

\* lines 51-67: the *.json files of one directory; a file json.load fails on is skipped
RECURSIVE LoadJsonFiles(_, _)
LoadJsonFiles(files, acc) ==
  IF files = <<>> THEN acc
  ELSE LoadJsonFiles(Tail(files),
                     IF Head(files).parses
                     THEN [acc EXCEPT ![Head(files).stem] = PluginConfigOf(Head(files))]
                     ELSE acc)

\* lines 44-49: for config_dir in self.config_dirs, a str: one path per character
RECURSIVE LoadConfigDirs(_, _)
LoadConfigDirs(dirs, acc) ==
  IF dirs = <<>> THEN acc
  ELSE LoadConfigDirs(Tail(dirs),
                      IF DirExists(<<Head(dirs)>>) THEN LoadJsonFiles(JsonFiles(<<Head(dirs)>>), acc)
                      ELSE acc)

\* the local dict configs that the loops fill
LocalConfigs(l) == LoadConfigDirs(l.config_dirs, EmptyConfigs)

\* load_plugin_configs, lines 32-94: the loops fill the local configs, every
\* *.ini file ends in the except branch, and line 94 returns self.configs
LoadPluginConfigs ==
  /\ pc = "idle"
  /\ loader # NoLoader
  /\ op' = "load_plugin_configs"
  /\ escaped' = FALSE
  /\ LET local == LocalConfigs(loader)
     IN configs_ret' = configs
  /\ UNCHANGED <<enginevars, regvars, loader, listing, plugins, plugins0, ndiscover, configs, itemvars, libvars>>

(* -------------------------- BaseDataItem methods ----------------------- *)
\* the dataclass __init__: created_at, updated_at and tags are arguments,
\* stored as given
NewItem(created, updated, tags) ==
  /\ pc = "idle"
  /\ data_item = NoDataItem
  /\ data_item' = [created_at |-> created, updated_at |-> updated, tags |-> tags,
                   metadata |-> [k \in MetaKeys |-> "none"]]
  /\ updated0' = updated
  /\ tags0' = tags
  /\ op' = "BaseDataItem"
  /\ UNCHANGED <<enginevars, escaped, regvars, loadvars, clock, libvars>>

\* add_metadata, lines 61-64
ItemAddMetadata(key, value) ==
  /\ pc = "idle"
  /\ data_item # NoDataItem
  /\ data_item' = [data_item EXCEPT !.metadata[key] = value, !.updated_at = clock]
  /\ op' = "add_metadata"
  /\ UNCHANGED <<enginevars, escaped, regvars, loadvars, clock, updated0, tags0, libvars>>

\* add_tag, lines 66-70
ItemAddTag(tag) ==
  /\ pc = "idle"
  /\ data_item # NoDataItem
  /\ data_item' = IF InTags(tag, data_item.tags) THEN data_item
                  ELSE [add_tag(data_item, tag) EXCEPT !.updated_at = clock]
  /\ op' = "add_tag"
  /\ UNCHANGED <<enginevars, escaped, regvars, loadvars, clock, updated0, tags0, libvars>>

\* list.remove: the first occurrence goes
RECURSIVE RemoveFirst(_, _)
RemoveFirst(tags, tag) ==
  IF tags = <<>> THEN <<>>
  ELSE IF Head(tags) = tag THEN Tail(tags)
  ELSE <<Head(tags)>> \o RemoveFirst(Tail(tags), tag)

\* remove_tag, lines 72-76
ItemRemoveTag(tag) ==
  /\ pc = "idle"
  /\ data_item # NoDataItem
  /\ data_item' = IF InTags(tag, data_item.tags)
                  THEN [data_item EXCEPT !.tags = RemoveFirst(@, tag), !.updated_at = clock]
                  ELSE data_item
  /\ op' = "remove_tag"
  /\ UNCHANGED <<enginevars, escaped, regvars, loadvars, clock, updated0, tags0, libvars>>

\* time passes: datetime.now() never goes back
Tick ==
  /\ clock < MaxClock
  /\ clock' = clock + 1
  /\ UNCHANGED <<allvars, regvars, loadvars, data_item, updated0, tags0, libvars>>

(* --------------------- BufferingSMTPHandler methods -------------------- *)

\* BufferingHandler.shouldFlush: len(self.buffer) >= self.capacity
shouldFlush(buffer, capacity) == Len(buffer) >= capacity

\* flush, lines 65-70 and 78-79: the calls of smtplib that raise under an outcome
ConnectRaises(outcome) == outcome \in {"connect_fails", "login_fails"}
SendRaises(outcome) == outcome \in {"sendmail_fails", "quit_fails"}
\* sendmail has handed the message over when it returns; quit comes after it
Delivers(outcome) == outcome \in {"ok", "quit_fails"}
\* flush, line 80: except Exception catches whatever smtplib raises
Caught(outcome) == TRUE

SetThread(t, rec) == [handler.th EXCEPT ![t] = rec]
AtPc(t, pc_) == handler.made /\ handler.th[t].pc = pc_

\* __init__, lines 32-43: BufferingHandler.__init__ sets capacity and an empty
\* buffer, Handler.__init__ the level NOTSET and the lock
NewHandler(capacity) ==
  /\ ~handler.made
  /\ handler' = [NoHandler EXCEPT !.made = TRUE, !.capacity = capacity]
  /\ UNCHANGED <<allvars, regvars, loadvars, itemvars, wq, eq, sfile>>

\* Handler.setLevel: one attribute store
HandlerSetLevel(level) ==
  /\ handler.made
  /\ handler.level # level
  /\ handler' = [handler EXCEPT !.level = level]
  /\ UNCHANGED <<allvars, regvars, loadvars, itemvars, wq, eq, sfile>>

\* a thread logs a record: Handler.handle takes the handler's lock and calls
\* emit, lines 52-53: a record at or above the level is appended
HandlerEmit(t, levelno) ==
  /\ AtPc(t, "idle")
  /\ handler.lock = "none"
  /\ handler.emits < MaxEmits
  /\ LET appends == levelno >= handler.level
     IN handler' = [handler EXCEPT
          !.lock = t,
          !.emits = @ + 1,
          !.buffer = IF appends THEN Append(@, [levelno |-> levelno, id |-> handler.emits + 1])
                     ELSE @,
          !.th = SetThread(t, [IdleThread EXCEPT !.pc = IF appends THEN "emit_test" ELSE "return",
                                                 !.call = "emit", !.arg = levelno])]
  /\ UNCHANGED <<allvars, regvars, loadvars, itemvars, wq, eq, sfile>>

\* emit, lines 54-55: shouldFlush, then flush or return
EmitTest(t) ==
  /\ AtPc(t, "emit_test")
  /\ handler' = [handler EXCEPT
       !.th[t].arg = 0,
       !.th[t].pc = IF shouldFlush(handler.buffer, handler.capacity) THEN "flush_test" ELSE "return"]
  /\ UNCHANGED <<allvars, regvars, loadvars, itemvars, wq, eq, sfile>>

\* a thread calls flush() directly, as close() does: no lock is taken
HandlerFlush(t) ==
  /\ AtPc(t, "idle")
  /\ handler' = [handler EXCEPT
       !.th = SetThread(t, [IdleThread EXCEPT !.pc = "flush_test", !.call = "flush"])]
  /\ UNCHANGED <<allvars, regvars, loadvars, itemvars, wq, eq, sfile>>

\* flush, lines 58-70: nothing to do for an empty buffer; otherwise the
\* connection and the login, which do to this flush what the server decides
FlushTest(t, outcome) ==
  /\ AtPc(t, "flush_test")
  /\ handler' = [handler EXCEPT
       !.th[t].outcome = IF Len(handler.buffer) = 0 THEN "none" ELSE outcome,
       !.th[t].pc = IF Len(handler.buffer) = 0 THEN "return"
                    ELSE IF ~ConnectRaises(outcome) THEN "flush_read"
                    ELSE IF Caught(outcome) THEN "flush_clear" ELSE "return",
       !.th[t].raised = Len(handler.buffer) > 0 /\ ConnectRaises(outcome) /\ ~Caught(outcome)]
  /\ UNCHANGED <<allvars, regvars, loadvars, itemvars, wq, eq, sfile>>

\* flush, lines 72-76: the message is built from the records in the buffer
FlushRead(t) ==
  /\ AtPc(t, "flush_read")
  /\ handler' = [handler EXCEPT !.th[t].snap = handler.buffer, !.th[t].pc = "flush_send"]
  /\ UNCHANGED <<allvars, regvars, loadvars, itemvars, wq, eq, sfile>>

\* flush, lines 78-81: sendmail and quit; what they raise is caught and printed
FlushSend(t) ==
  /\ AtPc(t, "flush_send")
  /\ LET o == handler.th[t].outcome
     IN handler' = [handler EXCEPT
          !.mails = IF Delivers(o) THEN Append(@, handler.th[t].snap) ELSE @,
          !.th[t].pc = IF SendRaises(o) /\ ~Caught(o) THEN "return" ELSE "flush_clear",
          !.th[t].raised = SendRaises(o) /\ ~Caught(o)]
  /\ UNCHANGED <<allvars, regvars, loadvars, itemvars, wq, eq, sfile>>

\* flush, line 83: self.buffer = []
FlushClear(t) ==
  /\ AtPc(t, "flush_clear")
  /\ handler' = [handler EXCEPT !.buffer = <<>>, !.th[t].pc = "return"]
  /\ UNCHANGED <<allvars, regvars, loadvars, itemvars, wq, eq, sfile>>

\* the call returns to the thread; Handler.handle releases the lock
HandlerReturn(t) ==
  /\ AtPc(t, "return")
  /\ handler' = [handler EXCEPT !.th = SetThread(t, IdleThread),
                                !.lock = IF @ = t THEN "none" ELSE @]
  /\ UNCHANGED <<allvars, regvars, loadvars, itemvars, wq, eq, sfile>>

(* -------------------- WQPredictionEngine.collect_data ------------------ *)
\* what initialize_plugin(details=...) does: a subclass returns a true or a
\* false value; DataCollectorPlugin.initialize_plugin (data_plugin.py line 28)
\* raises KeyError, for collect_data passes no logfile_name
InitOutcomes == {"true", "false", "raises"}
\* what finalize() does: a subclass returns; DataCollectorPlugin.finalize
\* (data_plugin.py line 62) raises AttributeError, for __init__ sets _logger
FinOutcomes == {"returns", "raises"}

\* collect_data, lines 27-43: n plugins are found; init and fin are what the
\* initialize_plugin and the finalize of each will do
CallCollectData(n, init, fin) ==
  /\ wq.pc = "idle"
  /\ \A p \in DataPlugins : p > n => (init[p] = "false" /\ fin[p] = "returns")
  /\ wq' = [NoCollectData EXCEPT !.pc = "start", !.n = n, !.init = init, !.fin = fin]
  /\ UNCHANGED <<allvars, regvars, loadvars, itemvars, handler, eq, sfile>>

\* lines 44-50: initialize_plugin, and start() when it returned a true value;
\* an exception of initialize_plugin leaves collect_data
CollectDataStart ==
  /\ wq.pc = "start"
  /\ wq.pos <= wq.n
  /\ wq' = IF wq.init[wq.pos] = "raises"
            THEN [wq EXCEPT !.raised = TRUE, !.pc = "done"]
            ELSE [wq EXCEPT !.proc[wq.pos] = IF wq.init[wq.pos] = "true" THEN "running" ELSE @,
                            !.pos = @ + 1]
  /\ UNCHANGED <<allvars, regvars, loadvars, itemvars, handler, eq, sfile>>

\* the first loop is over
CollectDataStarted ==
  /\ wq.pc = "start"
  /\ wq.pos > wq.n
  /\ wq' = [wq EXCEPT !.pc = "join", !.pos = 1]
  /\ UNCHANGED <<allvars, regvars, loadvars, itemvars, handler, eq, sfile>>

\* the child process of a started plugin ends
PluginProcessExit(p) ==
  /\ wq.proc[p] = "running"
  /\ wq' = [wq EXCEPT !.proc[p] = "exited"]
  /\ UNCHANGED <<allvars, regvars, loadvars, itemvars, handler, eq, sfile>>

\* line 55: join() on the next plugin of getAllPlugins(); on a process that
\* was never started it raises AssertionError, which leaves collect_data;
\* on a started one it returns when the process has ended
CollectDataJoin ==
  /\ wq.pc = "join"
  /\ wq.pos <= wq.n
  /\ wq.proc[wq.pos] # "running"
  /\ wq' = IF wq.proc[wq.pos] = "new"
            THEN [wq EXCEPT !.joins[wq.pos] = @ + 1, !.raised = TRUE, !.pc = "done"]
            ELSE [wq EXCEPT !.joins[wq.pos] = @ + 1, !.pc = "finalize"]
  /\ UNCHANGED <<allvars, regvars, loadvars, itemvars, handler, eq, sfile>>

\* line 56: finalize() on the plugin just joined; an exception of finalize
\* leaves collect_data
CollectDataFinalize ==
  /\ wq.pc = "finalize"
  /\ wq' = IF wq.fin[wq.pos] = "raises"
            THEN [wq EXCEPT !.raised = TRUE, !.pc = "done"]
            ELSE [wq EXCEPT !.finalized[wq.pos] = TRUE, !.pos = @ + 1, !.pc = "join"]
  /\ UNCHANGED <<allvars, regvars, loadvars, itemvars, handler, eq, sfile>>

\* line 58: the second loop is over and collect_data returns
CollectDataReturn ==
  /\ wq.pc = "join"
  /\ wq.pos > wq.n
  /\ wq' = [wq EXCEPT !.pc = "done"]
  /\ UNCHANGED <<allvars, regvars, loadvars, itemvars, handler, eq, sfile>>

(* --------------------------- wqEquations methods ----------------------- *)
RECURSIVE SumLevels(_)
SumLevels(levels) == IF levels = <<>> THEN 0 ELSE Head(levels) + SumLevels(Tail(levels))

\* int(round(sum / float(n))) for sum >= 0, n > 0: Python rounds a half to
\* the even neighbour
RoundedAverage(sum, n) ==
  LET q == sum \div n
      r == sum % n
  IN IF 2 * r < n THEN q
     ELSE IF 2 * r > n THEN q + 1
     ELSE IF q % 2 = 0 THEN q ELSE q + 1

\* lines 220-223: the levels of the tests that are neither NO_TEST nor DISABLED
Executed(tests) == SelectSeq(tests, LAMBDA v : v # NO_TEST /\ v # DISABLED)

\* overallPrediction, lines 212-231: the value of _ensemblePrediction after it
overallPrediction(tests, ensemble) ==
  IF Len(tests) > 0 /\ Len(Executed(tests)) > 0
  THEN RoundedAverage(SumLevels(Executed(tests)), Len(Executed(tests)))
  ELSE ensemble

\* __init__, lines 157-165: the tests of model_equation_list, each created
\* with the level NO_TEST; the ensemble level NO_TEST
NewEquations(n) ==
  /\ eq = NoEquations
  /\ eq' = [tests |-> [i \in 1..n |-> NO_TEST], ensemble |-> NO_TEST, runs |-> 0, last |-> "init"]
  /\ UNCHANGED <<allvars, regvars, loadvars, itemvars, handler, wq, sfile>>

\* addTest, lines 183-184
EquationsAddTest ==
  /\ eq.last # "none"
  /\ Len(eq.tests) < MaxTests
  /\ eq' = [eq EXCEPT !.tests = Append(@, NO_TEST), !.last = "addTest"]
  /\ UNCHANGED <<allvars, regvars, loadvars, itemvars, handler, wq, sfile>>

\* runTests, lines 197-203: every test is run and leaves a level, then
\* overallPrediction
EquationsRunTests(levels) ==
  /\ eq.last # "none"
  /\ eq.runs < MaxRuns
  /\ Len(levels) = Len(eq.tests)
  /\ eq' = [eq EXCEPT !.tests = levels, !.ensemble = overallPrediction(levels, @),
                      !.runs = @ + 1, !.last = "runTests"]
  /\ UNCHANGED <<allvars, regvars, loadvars, itemvars, handler, wq, sfile>>

\* overallPrediction called by itself
EquationsOverallPrediction ==
  /\ eq.last # "none"
  /\ eq' = [eq EXCEPT !.ensemble = overallPrediction(eq.tests, @), !.last = "overallPrediction"]
  /\ UNCHANGED <<allvars, regvars, loadvars, itemvars, handler, wq, sfile>>

(* ------------------ WQStationAdvisoriesFile.create_file ---------------- *)
\* date_time.strftime('%Y-%m-%d %H:%M:%S'): the microsecond is dropped; the
\* strings of two date_times compare as their seconds do
FormatDate(sample) == sample.sec

\* lines 218-223: one entry per sample, in the order of the samples
AdvisoriesOf(samples) ==
  [i \in 1..Len(samples) |-> [date |-> FormatDate(samples[i]), value |-> samples[i].value]]

\* contains(list, lambda x: x['date'] == date), lines 7-11
contains(list, date) == \E i \in 1..Len(list) : list[i].date = date

\* list.sort(key=date) is stable: an entry goes after the entries of the
\* same or an earlier date that precede it
RECURSIVE InsertByDate(_, _)
InsertByDate(sorted, x) ==
  IF sorted = <<>> THEN <<x>>
  ELSE IF sorted[Len(sorted)].date <= x.date THEN Append(sorted, x)
  ELSE Append(InsertByDate(SubSeq(sorted, 1, Len(sorted) - 1), x), sorted[Len(sorted)])
RECURSIVE SortByDate(_)
SortByDate(list) ==
  IF list = <<>> THEN <<>>
  ELSE InsertByDate(SortByDate(SubSeq(list, 1, Len(list) - 1)), list[Len(list)])

\* lines 235-239: an entry whose date the file's list does not hold is
\* appended and the list sorted
RECURSIVE MergeAdvisories(_, _)
MergeAdvisories(file_list, new) ==
  IF new = <<>> THEN file_list
  ELSE IF contains(file_list, Head(new).date)
       THEN MergeAdvisories(file_list, Tail(new))
       ELSE MergeAdvisories(SortByDate(Append(file_list, Head(new))), Tail(new))

\* create_file, lines 211-281: the beachadvisories list of the file written;
\* present says whether wq_samples has the station as a key
create_file(exists, file_list, present, samples) ==
  LET beach_advisories == IF present THEN AdvisoriesOf(samples) ELSE <<>>
  IN IF exists THEN MergeAdvisories(file_list, beach_advisories)
     ELSE beach_advisories

CreateFile(present, samples) ==
  /\ sfile.calls < MaxFileCalls
  /\ ~present => samples = <<>>
  /\ sfile' = [exists |-> TRUE,
               advisories |-> create_file(sfile.exists, sfile.advisories, present, samples),
               calls |-> sfile.calls + 1, last |-> "create_file", samples |-> samples,
               present |-> present, same |-> FALSE]
  /\ UNCHANGED <<allvars, regvars, loadvars, itemvars, handler, wq, eq>>

\* create_file called once more with the wq_samples of the call before
CreateFileAgain ==
  /\ sfile.last = "create_file"
  /\ LET again == create_file(sfile.exists, sfile.advisories, sfile.present, sfile.samples)
     IN sfile' = [sfile EXCEPT !.advisories = again, !.last = "create_file_again",
                              !.same = (again = sfile.advisories)]
  /\ UNCHANGED <<allvars, regvars, loadvars, itemvars, handler, wq, eq>>

(* ----------------------------- specification --------------------------- *)
\* collect_all_data and run_once with their pool threads; set_status of a collector
NextCollect ==
  \/ CallCollectAllData
  \/ CallRunOnce
  \/ CollectSubmit
  \/ \E c \in Collectors : WorkerCollectTake(c)
  \/ \E c \in Collectors : WorkerCollectStart(c)
  \/ \E c \in Collectors : \E items \in Yields(c) : WorkerCollectReturn(c, items)
  \/ \E c \in Collectors : WorkerCollectRaise(c)
  \/ \E c \in Collectors : WorkerCollectErrCheck(c)
  \/ \E c \in Collectors : WorkerCollectErrReturn(c)
  \/ \E c \in Collectors : WorkerCollectHang(c)
  \/ \E c \in Collectors : MainCollectNext(c)
  \/ MainCollectErrCheck
  \/ CollectReturn
  \/ RunOnceProcess
  \/ \E c \in Collectors : \E status \in PluginStatus : SetCollectorStatus(c, status)

\* add_filter, add_processor and process_data
NextProcess ==
  \/ \E batch \in Batches : CallProcessData(batch)
  \/ \E f \in FilterFuncs : AddFilter(f)
  \/ \E p \in ProcessorFuncs : AddProcessor(p)
  \/ CallProcessDataAgain

\* distribute_data with its pool threads; set_status of an output plugin
NextDistribute ==
  \/ \E batch \in SendBatches : CallDistributeData(batch)
  \/ DistCheck
  \/ DistCheckRaise
  \/ DistSubmitDone
  \/ \E k \in 1..Len(futures) : WorkerSendStart(k)
  \/ \E k \in 1..Len(futures) : \E success \in BOOLEAN : WorkerSendReturn(k, success)
  \/ \E k \in 1..Len(futures) : WorkerSendRaise(k)
  \/ \E k \in 1..Len(futures) : WorkerErrWrite(k)
  \/ \E k \in 1..Len(futures) : WorkerErrCheck(k)
  \/ \E k \in 1..Len(futures) : WorkerErrReturn(k)
  \/ \E k \in 1..Len(futures) : WorkerSendHang(k)
  \/ MainDistResult
  \/ MainErrWrite
  \/ MainErrCheck
  \/ DistResultsDone
  \/ DistJoin
  \/ \E o \in Outputs : \E status \in PluginStatus : SetOutputStatus(o, status)

\* distribute_data with its pool threads, handle_error taken step by step in
\* the thread that calls it
NextRace ==
  \/ \E batch \in RaceBatches : CallDistributeData(batch)
  \/ DistCheck
  \/ DistSubmitDone
  \/ \E k \in 1..Len(futures) : WorkerSendStart(k)
  \/ \E k \in 1..Len(futures) : \E success \in BOOLEAN : WorkerSendReturn(k, success)
  \/ \E k \in 1..Len(futures) : WorkerSendRaise(k)
  \/ \E k \in 1..Len(futures) : WorkerErrWrite(k)
  \/ \E k \in 1..Len(futures) : WorkerErrCheck(k)
  \/ \E k \in 1..Len(futures) : WorkerErrReturn(k)
  \/ MainDistResult
  \/ MainErrWrite
  \/ MainErrCheck
  \/ DistResultsDone
  \/ DistJoin

\* handle_error and get_status called on the plugins and the engine
NextPlugin ==
  \/ \E c \in Collectors : CollectorHandleError(c)
  \/ \E o \in Outputs : OutputHandleError(o)
  \/ GetStatus

\* get_status called between process_data calls and handle_error calls on the
\* first collector and the first output
NextStatus ==
  \/ \E batch \in Batches : CallProcessData(batch)
  \/ CollectorHandleError(CollectorOrder[1])
  \/ OutputHandleError(OutputOrder[1])
  \/ GetStatus

\* process_data on one item under chains of up to MaxFilters filters and
\* MaxChain processors
NextChain ==
  \/ \E f \in FilterFuncs : AddFilter(f)
  \/ \E p \in ProcessorFuncs : AddProcessorUpTo(p, MaxChain)
  \/ \E it \in ProcessItems : CallProcessData(<<it>>)

\* up to MaxIndexCalls process_data calls, one after the other, under filters
NextIndex ==
  \/ \E f \in FilterFuncs : AddFilter(f)
  \/ \E batch \in Batches : ProcessDataCall(batch, MaxIndexCalls)

\* process_data calls one after the other under filters, and get_status calls
NextRetain ==
  \/ NextIndex
  \/ GetStatus

\* run_once cycles of an engine with filters: the collect phase with its pool
\* threads, process_data, and the distribute phase with its pool threads
NextCycle ==
  \/ \E f \in FilterFuncs : AddFilter(f)
  \/ CallRunOnceUpTo(MaxProcessCalls)
  \/ CollectSubmit
  \/ \E c \in Collectors : WorkerCollectTake(c)
  \/ \E c \in Collectors : WorkerCollectStart(c)
  \/ \E c \in Collectors : \E items \in CycleYields(c) : WorkerCollectReturn(c, items)
  \/ \E c \in Collectors : WorkerCollectRaise(c)
  \/ \E c \in Collectors : WorkerCollectErrCheck(c)
  \/ \E c \in Collectors : WorkerCollectErrReturn(c)
  \/ \E c \in Collectors : WorkerCollectHang(c)
  \/ \E c \in Collectors : MainCollectNext(c)
  \/ MainCollectErrCheck
  \/ RunOnceProcess
  \/ DistCheck
  \/ DistSubmitDone
  \/ \E k \in 1..Len(futures) : WorkerSendStart(k)
  \/ \E k \in 1..Len(futures) : \E success \in BOOLEAN : WorkerSendReturn(k, success)
  \/ \E k \in 1..Len(futures) : WorkerSendRaise(k)
  \/ \E k \in 1..Len(futures) : WorkerErrWrite(k)
  \/ \E k \in 1..Len(futures) : WorkerErrCheck(k)
  \/ \E k \in 1..Len(futures) : WorkerErrReturn(k)
  \/ \E k \in 1..Len(futures) : WorkerSendHang(k)
  \/ MainDistResult
  \/ MainErrWrite
  \/ MainErrCheck
  \/ DistResultsDone
  \/ DistJoin

\* every engine call and the set_status and handle_error calls on the first
\* collector and the first output plugin
NextTerminal ==
  \/ CallRunOnceUpTo(MaxDistCalls)
  \/ CallCollectAllDataUpTo(MaxDistCalls)
  \/ \E batch \in TerminalBatches : ProcessDataCall(batch, MaxDistCalls)
  \/ \E batch \in TerminalBatches : CallDistributeData(batch)
  \/ GetStatus
  \/ FurtherCollectorError(CollectorOrder[1])
  \/ FurtherOutputError(OutputOrder[1])
  \/ \E status \in PluginStatus : SetCollectorStatusUpTo(CollectorOrder[1], status, MaxDistCalls)
  \/ \E status \in PluginStatus : SetOutputStatus(OutputOrder[1], status)
  \/ CollectSubmit
  \/ \E c \in Collectors : WorkerCollectTake(c)
  \/ \E c \in Collectors : WorkerCollectStart(c)
  \/ \E c \in Collectors : \E items \in CycleYields(c) : WorkerCollectReturn(c, items)
  \/ \E c \in Collectors : WorkerCollectRaise(c)
  \/ \E c \in Collectors : WorkerCollectErrCheck(c)
  \/ \E c \in Collectors : WorkerCollectErrReturn(c)
  \/ \E c \in Collectors : MainCollectNext(c)
  \/ MainCollectErrCheck
  \/ CollectReturn
  \/ RunOnceProcess
  \/ DistCheck
  \/ DistSubmitDone
  \/ \E k \in 1..Len(futures) : WorkerSendStart(k)
  \/ \E k \in 1..Len(futures) : \E success \in BOOLEAN : WorkerSendReturn(k, success)
  \/ \E k \in 1..Len(futures) : WorkerSendRaise(k)
  \/ \E k \in 1..Len(futures) : WorkerErrWrite(k)
  \/ \E k \in 1..Len(futures) : WorkerErrCheck(k)
  \/ \E k \in 1..Len(futures) : WorkerErrReturn(k)
  \/ MainDistResult
  \/ MainErrWrite
  \/ MainErrCheck
  \/ DistResultsDone
  \/ DistJoin

\* register_collector_plugin and register_output_plugin
NextRegister ==
  \/ \E p \in CollectorCandidates : RegisterCollector(p)
  \/ \E p \in OutputCandidates : RegisterOutput(p)

\* a PluginLoader: its construction, discover_plugins, load_plugin_configs
NextLoader ==
  \/ \E dir \in PluginDirNames : \E cdirs \in ConfigDirArgs : \E files \in Listings :
       NewLoader(dir, cdirs, files)
  \/ DiscoverPlugins
  \/ LoadPluginConfigs

\* a data item: its construction and its methods, while time passes
NextItem ==
  \/ \E created \in Times : \E updated \in Times : \E tags \in TagLists :
       NewItem(created, updated, tags)
  \/ \E key \in MetaKeys : \E value \in MetaValues : ItemAddMetadata(key, value)
  \/ \E tag \in TagNames : ItemAddTag(tag)
  \/ \E tag \in TagNames : ItemRemoveTag(tag)
  \/ Tick

\* a BufferingSMTPHandler of capacity 0..MaxCapacity used by two threads that
\* log records and call flush
NextHandler ==
  \/ \E capacity \in 0..MaxCapacity : NewHandler(capacity)
  \/ \E level \in HandlerLevels : HandlerSetLevel(level)
  \/ \E t \in HandlerThreads : \E levelno \in LevelNos : HandlerEmit(t, levelno)
  \/ \E t \in HandlerThreads : EmitTest(t)
  \/ \E t \in HandlerThreads : HandlerFlush(t)
  \/ \E t \in HandlerThreads : \E outcome \in SmtpOutcomes : FlushTest(t, outcome)
  \/ \E t \in HandlerThreads : FlushRead(t)
  \/ \E t \in HandlerThreads : FlushSend(t)
  \/ \E t \in HandlerThreads : FlushClear(t)
  \/ \E t \in HandlerThreads : HandlerReturn(t)

\* one collect_data call of a WQPredictionEngine and the plugin processes
NextCollectData ==
  \/ \E n \in DataPlugins : \E init \in [DataPlugins -> InitOutcomes] :
       \E fin \in [DataPlugins -> FinOutcomes] : CallCollectData(n, init, fin)
  \/ CollectDataStart
  \/ CollectDataStarted
  \/ \E p \in DataPlugins : PluginProcessExit(p)
  \/ CollectDataJoin
  \/ CollectDataFinalize
  \/ CollectDataReturn

\* a wqEquations object under addTest, runTests and overallPrediction calls
NextEquations ==
  \/ \E n \in 0..MaxTests : NewEquations(n)
  \/ EquationsAddTest
  \/ \E levels \in UNION {[1..n -> TestLevels] : n \in 0..MaxTests} : EquationsRunTests(levels)
  \/ EquationsOverallPrediction

\* create_file calls on the file of one station
NextStationFile ==
  \/ \E present \in BOOLEAN : \E samples \in SampleLists : CreateFile(present, samples)
  \/ CreateFileAgain

Next == NextCollect \/ NextProcess \/ NextChain \/ NextIndex \/ NextRetain \/ NextDistribute \/ NextRace \/ NextCycle \/ NextTerminal \/ NextPlugin \/ NextStatus
        \/ NextRegister
        \/ NextLoader \/ NextItem \/ NextHandler \/ NextCollectData \/ NextEquations
        \/ NextStationFile

\* the engine under every call
Spec == Init /\ [][Next]_vars

\* the engine with its output plugins enabled, each with retry_count MaxRetry
InitCollect ==
  /\ InitRegistered
  /\ ostatus = [o \in Outputs |-> ENABLED_]
  /\ oretry = [o \in Outputs |-> MaxRetry]

\* the engine with every plugin enabled, each with retry_count MaxRetry
InitProcess ==
  /\ InitRegistered
  /\ cstatus = [c \in Collectors |-> ENABLED_]
  /\ cretry = [c \in Collectors |-> MaxRetry]
  /\ ostatus = [o \in Outputs |-> ENABLED_]
  /\ oretry = [o \in Outputs |-> MaxRetry]
  /\ max_workers = MaxWorkers

\* the engine with its collector plugins enabled, each with retry_count MaxRetry
InitDistribute ==
  /\ InitRegistered
  /\ cstatus = [c \in Collectors |-> ENABLED_]
  /\ cretry = [c \in Collectors |-> MaxRetry]

\* the engine as __init__ leaves it, no plugin registered yet; the plugin
\* objects enabled, each with retry_count MaxRetry
InitRegister ==
  /\ Init
  /\ cstatus = [c \in Collectors |-> ENABLED_]
  /\ cretry = [c \in Collectors |-> MaxRetry]
  /\ ostatus = [o \in Outputs |-> ENABLED_]
  /\ oretry = [o \in Outputs |-> MaxRetry]
  /\ max_workers = MaxWorkers

\* the engine with every plugin created enabled
InitPlugin ==
  /\ InitRegistered
  /\ cstatus = [c \in Collectors |-> ENABLED_]
  /\ ostatus = [o \in Outputs |-> ENABLED_]
  /\ max_workers = MaxWorkers

\* the engine with every plugin created enabled, the collectors with
\* retry_count MaxRetry
InitRace ==
  /\ InitRegistered
  /\ cstatus = [c \in Collectors |-> ENABLED_]
  /\ cretry = [c \in Collectors |-> MaxRetry]
  /\ ostatus = [o \in Outputs |-> ENABLED_]
  /\ max_workers = MaxWorkers

\* plugins of classes whose constructor also stores the PluginConfig as
\* self.config
AllConfigAttr == [p \in Plugins |-> TRUE]

\* the engine with its output plugins enabled, every plugin with retry_count
\* MaxRetry, and plugin classes that all add a config attribute or all add none
InitCycle ==
  /\ RegisteredEngine
  /\ pconfig \in {NoConfigAttr, AllConfigAttr}
  /\ cretry = [c \in Collectors |-> MaxRetry]
  /\ ostatus = [o \in Outputs |-> ENABLED_]
  /\ oretry = [o \in Outputs |-> MaxRetry]

\* the engine with its first collector and its first output plugin enabled
\* and the others disabled, each with retry_count MaxRetry, and plugin classes
\* that all add a config attribute or all add none
InitTerminal ==
  /\ RegisteredEngine
  /\ pconfig \in {NoConfigAttr, AllConfigAttr}
  /\ cstatus = [c \in Collectors |-> IF c = CollectorOrder[1] THEN ENABLED_ ELSE DISABLED_]
  /\ cretry = [c \in Collectors |-> MaxRetry]
  /\ ostatus = [o \in Outputs |-> IF o = OutputOrder[1] THEN ENABLED_ ELSE DISABLED_]
  /\ oretry = [o \in Outputs |-> MaxRetry]
  /\ max_workers = MaxWorkers

\* the engine under run_once calls that go through the three phases
SpecCycle == InitCycle /\ [][NextCycle]_vars
\* the engine under every call, and its plugins under set_status and
\* handle_error
SpecTerminal == InitTerminal /\ [][NextTerminal]_vars
\* the engine under collect_all_data and run_once calls
SpecCollect == InitCollect /\ [][NextCollect]_vars
\* the engine under add_filter, add_processor and process_data calls
SpecProcess == InitProcess /\ [][NextProcess]_vars
\* the engine under distribute_data calls
SpecDistribute == InitDistribute /\ [][NextDistribute]_vars
\* what the pool does with its k-th submitted send: a free thread takes it, and
\* the send_data call it runs returns, raises, or never returns
WorkerSendStep(k) ==
  /\ k <= Len(futures)
  /\ \/ WorkerSendStart(k)
     \/ \E success \in BOOLEAN : WorkerSendReturn(k, success)
     \/ WorkerSendRaise(k)
     \/ WorkerErrWrite(k)
     \/ WorkerErrCheck(k)
     \/ WorkerErrReturn(k)
     \/ WorkerSendHang(k)
\* the most futures a distribute_data call of SendBatches can submit
MaxFutures == 2 * NumOutputs
\* the same, with threads that keep running: the controlling thread takes its
\* next step whenever it has one, and so does the pool for every submitted send
SpecDistributeLive ==
  /\ InitDistribute
  /\ [][NextDistribute]_vars
  /\ WF_vars(DistCheck \/ DistCheckRaise)
  /\ WF_vars(DistSubmitDone)
  /\ WF_vars(MainDistResult)
  /\ WF_vars(MainErrWrite)
  /\ WF_vars(MainErrCheck)
  /\ WF_vars(DistResultsDone)
  /\ WF_vars(DistJoin)
  /\ \A k \in 1..MaxFutures : WF_vars(WorkerSendStep(k))
\* distribute_data calls on enabled plugins, the threads interleaving inside
\* handle_error
SpecRace == InitRace /\ [][NextRace]_vars
\* plugins under handle_error calls, the engine under get_status calls
SpecPlugin == InitPlugin /\ [][NextPlugin]_vars
\* the engine under process_data calls on one item, with longer processor chains
SpecChain == InitProcess /\ [][NextChain]_vars
\* the engine under process_data calls that find an index already filled
SpecIndex == InitProcess /\ [][NextIndex]_vars
SpecRetain == InitProcess /\ [][NextRetain]_vars
\* the engine under get_status, process_data and handle_error calls
SpecStatus == InitProcess /\ [][NextStatus]_vars
\* the engine under register_collector_plugin and register_output_plugin calls
SpecRegister == InitRegister /\ [][NextRegister]_vars
\* a PluginLoader under discover_plugins and load_plugin_configs calls
SpecLoader == InitProcess /\ [][NextLoader]_vars
\* a data item under its methods
SpecItem == InitProcess /\ [][NextItem]_vars
\* a BufferingSMTPHandler under the calls of the logging package
SpecHandler == InitProcess /\ [][NextHandler]_vars
\* WQPredictionEngine.collect_data with the processes of its plugins
SpecCollectData == InitProcess /\ [][NextCollectData]_vars
\* a wqEquations object under the calls of a prediction run
SpecEquations == InitProcess /\ [][NextEquations]_vars
\* the file of one station under create_file calls
SpecStationFile == InitProcess /\ [][NextStationFile]_vars

(* ------------------------------- claims -------------------------------- *)
CountIn(x, seq) == Cardinality({i \in 1..Len(seq) : seq[i] = x})
CollectOver == pc = "idle" /\ op \in {"collect_all_data", "run_once"}
CollectCallOver == pc = "idle" /\ op = "collect_all_data"
RunOnceOver == pc = "idle" /\ op = "run_once"
ProcessOver == pc = "idle" /\ op = "process_data"
DistributeOver == pc = "idle" /\ op = "distribute_data"

\* the items the succeeding collectors returned, counted with multiplicity
RECURSIVE ReturnedCount(_, _)
ReturnedCount(x, n) ==
  IF n = 0 THEN 0
  ELSE ReturnedCount(x, n - 1)
       + (IF ctask[CollectorOrder[n]] = "ok" THEN CountIn(x, cres[CollectorOrder[n]]) ELSE 0)

\* C1: when collect_all_data has returned, its result holds every item exactly as
\* often as the succeeding plugins returned it: nothing missing, nothing extra.
C1_CollectsUnionOfSuccesses ==
  CollectCallOver =>
    \A x \in Items : CountIn(x, all_data) = ReturnedCount(x, Len(CollectorOrder))

\* C2: after a run_once cycle, a collector whose collect_data raised has its
\* error_count one above what it was, and its status as before unless the new
\* count has reached retry_count.
C2_RaisingCollectorCountedOnce ==
  RunOnceOver =>
    \A c \in Collectors :
      ctask[c] = "raised" =>
        /\ cerr[c] = cerr0[c] + 1
        /\ cstatus[c] = (IF cerr[c] >= cretry[c] THEN ERROR_ ELSE cstatus0[c])

\* C3: after process_data, an item of the batch is in the returned list exactly
\* when every registered filter accepts it, and an index entry that the call
\* changed holds an accepted item of the batch, never a rejected one.
AllAccept(item) == \A f \in {filters[i] : i \in 1..Len(filters)} : ApplyFilter(f, item)
SameItem(x, y) == x.item_id = y.item_id /\ x.item_type = y.item_type
InList(item, list) == \E j \in 1..Len(list) : SameItem(list[j], item)
C3_SurvivesIffAllFiltersAccept ==
  ProcessOver =>
    /\ \A i \in 1..Len(pbatch) : InList(pbatch[i], processed_data) <=> AllAccept(pbatch[i])
    /\ \A id \in ItemIds :
         data_items[id] # data0[id] =>
           \E i \in 1..Len(pbatch) : AllAccept(pbatch[i]) /\ SameItem(data_items[id], pbatch[i])

\* a two-filter chain whose second filter alone rejects an item of a batch that
\* also holds an accepted item
C3_Witness ==
  /\ ProcessOver
  /\ Len(filters) = 2
  /\ \E i, j \in 1..Len(pbatch) :
       /\ ApplyFilter(filters[1], pbatch[i]) /\ ~ApplyFilter(filters[2], pbatch[i])
       /\ AllAccept(pbatch[j])
       /\ data_items[pbatch[j].item_id] # data0[pbatch[j].item_id]

\* C4: in a distribute_data call send_data is invoked at most once for a pair
\* (P, I) and never for a pair whose plugin was not enabled when the call
\* started or whose should_send is false; when the call has returned, it was
\* invoked exactly once for every pair whose plugin was enabled when the call
\* started and whose should_send is true.
Invocations(o, i) ==
  Cardinality({k \in 1..Len(futures) :
                 /\ futures[k].plugin = o /\ futures[k].item = i
                 /\ futures[k].st \notin {"queued"}})
EligiblePair(pos) ==
  ostatus0[PairPlugin(pos)] = ENABLED_ /\ should_send(PairPlugin(pos), dbatch[PairItem(pos)])
C4_SentExactlyOncePerEligiblePair ==
  (op = "distribute_data") =>
    /\ \A pos \in 1..NumPairs(dbatch) :
         Invocations(PairPlugin(pos), PairItem(pos)) <= (IF EligiblePair(pos) THEN 1 ELSE 0)
    /\ (DistributeOver /\ ~escaped) =>
         \A pos \in 1..NumPairs(dbatch) :
           Invocations(PairPlugin(pos), PairItem(pos)) = (IF EligiblePair(pos) THEN 1 ELSE 0)

\* C5: a collector created enabled with retry_count K that raised in every cycle
\* it was invoked in, and was never set_status'ed, is ENABLED and was invoked in
\* every cycle while fewer than K cycles are over, and from the K-th on it is in
\* ERROR and was invoked in exactly K cycles.
C5_DemotedAfterKFailingCycles ==
  CollectOver =>
    \A c \in Collectors :
      cstreak[c] >= 0 =>
        IF ncalls < cretry[c]
        THEN cstatus[c] = ENABLED_ /\ cstreak[c] = ncalls
        ELSE cstatus[c] = ERROR_ /\ cstreak[c] = cretry[c]

\* C6: in a run_once cycle that starts with some collector in ERROR, no plugin in
\* ERROR is invoked, every collector that is ENABLED is invoked, and every output
\* plugin that is ENABLED is invoked for the collected items it supports.
Collected(x) == \E c \in Collectors : ctask[c] = "ok" /\ CountIn(x, cres[c]) > 0
SentTo(o) == \E k \in 1..Len(futures) : futures[k].plugin = o /\ futures[k].st # "queued"
C6_ErrorPluginSkippedOthersInvoked ==
  (RunOnceOver /\ \E c \in Collectors : cstatus0[c] = ERROR_) =>
    /\ \A c \in Collectors : cstatus0[c] = ERROR_ => ctask[c] = "none"
    /\ \A c \in Collectors : cstatus0[c] = ENABLED_ => ctask[c] \in {"ok", "raised"}
    /\ \A o \in Outputs : ostatus[o] = ERROR_ => ~SentTo(o)
    /\ \A o \in Outputs :
         (ostatus[o] = ENABLED_ /\ \E x \in Items : Collected(x) /\ AllAccept(x) /\ should_send(o, x))
           => SentTo(o)

\* C7: no error of a plugin operation leaves collect_all_data, distribute_data
\* or run_once.
C7_NoPluginErrorEscapes == ~escaped

\* C8: a collector call that never returns does not keep collect_all_data from
\* finishing: the controlling thread is never left waiting for good.
CollectBlocked ==
  /\ pc = "collect_wait"
  /\ \E c \in Collectors : ctask[c] = "hung"
  /\ \A c \in Collectors :
       \/ ctask[c] \in {"none", "hung"}
       \/ CollectDone(c) /\ c \in cseen
       \/ ctask[c] = "queued" /\ CollectBusy >= max_workers
C8_HungCollectorDoesNotBlock == ~CollectBlocked

\* C9: when distribute_data has returned, each output plugin's sent_count has
\* grown by the number of its send_data calls that returned true.
SendsWith(o, outcomes) ==
  Cardinality({k \in 1..Len(futures) : futures[k].plugin = o /\ futures[k].st \in outcomes})
C9_SentCountCountsSuccesses ==
  (DistributeOver /\ ~escaped) =>
    \A o \in Outputs : osent[o] = osent0[o] + SendsWith(o, {"true"})

\* C10: when distribute_data has returned, the error_count of an output plugin
\* with send_data calls that returned false or raised has grown by one for each
\* of them.
C10_ErrorCountCountsFailedSends ==
  (DistributeOver /\ ~escaped) =>
    \A o \in Outputs :
      SendsWith(o, {"false", "raised"}) > 0 =>
        oerr[o] = oerr0[o] + SendsWith(o, {"false", "raised"})

\* C11: when distribute_data has returned from a phase in which a send_data
\* call failed, send_data was invoked once for every pair whose plugin was
\* enabled when the phase started and whose should_send is true.
SendFailed == \E k \in 1..Len(futures) : futures[k].st \in {"false", "raised"}
C11_FailedSendLeavesOtherPairs ==
  (DistributeOver /\ ~escaped /\ SendFailed) =>
    \A pos \in 1..NumPairs(dbatch) :
      (ostatus0[PairPlugin(pos)] = ENABLED_ /\ should_send(PairPlugin(pos), dbatch[PairItem(pos)]))
        => Invocations(PairPlugin(pos), PairItem(pos)) = 1


\* C12: a plugin created ENABLED with retry_count K >= 1 and never changed
\* through set_status has, after n calls of handle_error, error_count n, and
\* its status is ERROR exactly when n >= K, ENABLED otherwise.
C12_HandleErrorCountsToRetry ==
  /\ \A c \in Collectors :
       /\ cerr[c] = hcalls[c]
       /\ cstatus[c] = IF hcalls[c] >= cretry[c] THEN ERROR_ ELSE ENABLED_
  /\ \A o \in Outputs :
       /\ oerr[o] = hcalls[o]
       /\ ostatus[o] = IF hcalls[o] >= oretry[o] THEN ERROR_ ELSE ENABLED_
\* one collector just reached its retry_count of 2 and is in ERROR, one output
\* has failed once below its retry_count and is still ENABLED, and one output
\* has gone past its retry_count
C12_Witness ==
  /\ \E c \in Collectors : hcalls[c] = 2 /\ cretry[c] = 2 /\ cstatus[c] = ERROR_
  /\ \E o \in Outputs : hcalls[o] = 1 /\ oretry[o] = 2 /\ ostatus[o] = ENABLED_
  /\ \E o \in Outputs : hcalls[o] > oretry[o] /\ ostatus[o] = ERROR_

\* C13: a registration call with a plugin whose validate_config is false
\* raises to the caller and leaves collector_plugins and output_plugins
\* exactly as they were before the call.
RejectedArg ==
  \/ regarg.kind = "collector" /\ (regarg.name = "" \/ regarg.module = "")
  \/ regarg.kind = "output" /\ ~regarg.valid
C13_InvalidRegistrationRaisesKeepsRegistries ==
  (op \in {"register_collector_plugin", "register_output_plugin"} /\ RejectedArg) =>
    /\ escaped
    /\ <<collector_plugins, output_plugins>> = regs0
\* a collector without a name but with the module of a registered plugin is
\* rejected after another plugin was registered by an earlier call
C13_Witness ==
  /\ op = "register_collector_plugin"
  /\ regarg.name = "" /\ regarg.module = "c1"
  /\ escaped
  /\ \E i \in 1..Len(collector_plugins) : collector_plugins[i].key = "c3"
  /\ \E i \in 1..Len(collector_plugins) :
       collector_plugins[i].key = "c1" /\ collector_plugins[i].plugin.name # ""

\* C14: a get_status call changes no plugin or engine state, and it returns a
\* report every value of which is the value the state has at the call.
C14_GetStatusReadsWithoutWriting ==
  [][op' = "get_status" =>
       /\ UNCHANGED <<cvars, ovars, evars, regvars>>
       /\ report'.running = FALSE
       /\ report'.total_data_items = Cardinality({id \in ItemIds : data_items[id] # NoItem})
       /\ \A c \in Collectors :
            /\ report'.collector_plugins[c].status = cstatus[c]
            /\ report'.collector_plugins[c].last_run = clast[c]
            /\ report'.collector_plugins[c].error_count = cerr[c]
       /\ \A o \in Outputs :
            /\ report'.output_plugins[o].status = ostatus[o]
            /\ report'.output_plugins[o].supported_types = SupportedTypes(o)
            /\ report'.output_plugins[o].sent_count = osent[o]
            /\ report'.output_plugins[o].error_count = oerr[o]]_vars

\* C16: a second discover_plugins on an unchanged directory leaves
\* get_plugins() with the plugins it had after the first call: none added,
\* none duplicated, none removed.
PluginSet(l) == {l[i] : i \in 1..Len(l)}
C16_DiscoverTwiceSamePlugins ==
  (op = "discover_plugins" /\ ndiscover >= 2 /\ ~escaped) =>
    (PluginSet(plugins) = PluginSet(plugins0) /\ Len(plugins) = Len(plugins0))

\* C17: discover_plugins returns without an error whatever files the directory
\* holds, and every class of every file that loads is among the plugins.
C17_FailingFileSkipped ==
  (op = "discover_plugins") =>
    /\ ~escaped
    /\ \A k \in 1..Len(listing) :
         (listing[k].ext = "py" /\ listing[k].stem # "__init__" /\ listing[k].loads) =>
           \A j \in 1..Len(listing[k].classes) :
             \E i \in 1..Len(plugins) : plugins[i].name = listing[k].classes[j]

\* C18: load_plugin_configs returns, for every parseable JSON file of the
\* plugin directory, an entry under the file's base name with the file's
\* values and the defaults enabled=true, config={}, retry_count=3, timeout=30
\* for the keys it omits, and no entry for a file that does not parse.
ExpectedConfig(f) ==
  [name |-> f.stem,
   enabled |-> IF "enabled" \in f.keys THEN f.enabled ELSE TRUE,
   config |-> IF "config" \in f.keys THEN f.config ELSE {},
   retry_count |-> IF "retry_count" \in f.keys THEN f.retry_count ELSE 3,
   timeout |-> 30]
C18_ConfigsReturnedWithDefaults ==
  (op = "load_plugin_configs") =>
    \A k \in 1..Len(JsonFiles(loader.plugin_dir)) :
      LET f == JsonFiles(loader.plugin_dir)[k]
      IN configs_ret[f.stem] = IF f.parses THEN ExpectedConfig(f) ELSE NoConfig


\* C19: when a run_once cycle is over, every item handed to an output plugin
\* in the cycle passes all the filters, and every item a collector returned
\* that passes all the filters was sent by every enabled output plugin whose
\* should_send accepts it.
SentInCycle(o, item) ==
  \E k \in 1..Len(futures) :
    futures[k].plugin = o /\ dbatch[futures[k].item].item_id = item.item_id
C19_OnlySurvivorsAreDistributed ==
  RunOnceOver =>
    /\ \A k \in 1..Len(futures) : PassesFilters(dbatch[futures[k].item], filters)
    /\ \A c \in Collectors : ctask[c] = "ok" =>
         \A i \in 1..Len(cres[c]) : PassesFilters(cres[c][i], filters) =>
           \A o \in Outputs :
             (ostatus0[o] = ENABLED_ /\ should_send(o, cres[c][i])) => SentInCycle(o, cres[c][i])


\* C20: a data item constructed with updated_at >= created_at has
\* updated_at >= created_at after any calls of add_metadata, add_tag and
\* remove_tag, whatever created_at it was given, while the clock never goes back.
C20_UpdatedNotBeforeCreated ==
  (data_item # NoDataItem /\ updated0 >= data_item.created_at) =>
    data_item.updated_at >= data_item.created_at


\* C21: after process_data, the returned list holds, for the items all filters
\* accept, in batch order, p_n(...p_1(item)...) for the processors p_1..p_n in
\* registration order, and the index holds such an item under its id; the
\* calls made for one item are ordered: filters by registration order, then
\* processors by registration order, each processor called with the result of
\* the one before, and no processor before every filter was called.
RECURSIVE Composed(_, _, _)
Composed(item, ps, n) == IF n = 0 THEN item ELSE ApplyProcessor(ps[n], Composed(item, ps, n - 1))
Survivors == SelectSeq(pbatch, LAMBDA it : AllAccept(it))
C21_ChainsRunInRegistrationOrder ==
  ProcessOver =>
    /\ Len(processed_data) = Len(Survivors)
    /\ \A i \in 1..Len(processed_data) :
         /\ processed_data[i] = Composed(Survivors[i], processors, Len(processors))
         /\ \E j \in 1..Len(processed_data) :
              data_items[processed_data[i].item_id] = processed_data[j]
    /\ \A i, j \in 1..Len(plog) :
         (i < j /\ plog[i].pos = plog[j].pos) =>
           /\ plog[i].kind = "processor" => plog[j].kind = "processor"
           /\ plog[i].kind = plog[j].kind => plog[i].idx < plog[j].idx
    /\ \A j \in 1..Len(plog) :
         plog[j].kind = "processor" =>
           /\ plog[j].arg = Composed(pbatch[plog[j].pos], processors, plog[j].idx - 1)
           /\ \A n \in 1..Len(filters) :
                \E i \in 1..(j - 1) :
                  plog[i].kind = "filter" /\ plog[i].pos = plog[j].pos /\ plog[i].idx = n
\* an item passed two filters and then the processors tag_seen and
\* tag_processed, and the order of the two shows in what was stored
C21_Witness ==
  /\ ProcessOver
  /\ Len(filters) = 2
  /\ processors = <<"tag_seen", "tag_processed">>
  /\ Len(processed_data) = 1
  /\ Len(plog) = 4
  /\ data_items[processed_data[1].item_id].tags = <<"seen", "processed">>


\* C22: after process_data, the index holds under every item_id of a returned
\* item the last returned item with that id, and every other entry is the
\* one the index held before the call.
ReturnedWithId(id) == {i \in 1..Len(processed_data) : processed_data[i].item_id = id}
LastOf(S) == CHOOSE i \in S : \A j \in S : j <= i
C22_IndexHoldsLastSurvivorPerId ==
  ProcessOver =>
    \A id \in ItemIds :
      data_items[id] = IF ReturnedWithId(id) = {} THEN data0[id]
                       ELSE processed_data[LastOf(ReturnedWithId(id))]
\* a second call stored the later of two surviving items with one id over the
\* entry the first call had made, and left another entry of the first call alone
C22_Witness ==
  /\ ProcessOver
  /\ ncalls = 2
  /\ Len(processed_data) = 2
  /\ processed_data[1].item_id = processed_data[2].item_id
  /\ processed_data[1] # processed_data[2]
  /\ data0[processed_data[2].item_id] = processed_data[1]
  /\ data_items[processed_data[2].item_id] = processed_data[2]
  /\ \E id \in ItemIds :
       id # processed_data[2].item_id /\ data0[id] # NoItem /\ data_items[id] = data0[id]


\* C23: when a run_once cycle is over that started with no collector enabled,
\* no collect_data was invoked and the collected batch is empty; when it is
\* over and nothing survived processing, no should_send and no send_data was
\* invoked and sent_count, error_count and status of every output plugin are
\* what they were when the cycle started.
C23_EmptyPhasesAreSkipped ==
  RunOnceOver =>
    /\ (\A c \in Collectors : cstatus0[c] # ENABLED_) =>
         (all_data = <<>> /\ \A c \in Collectors : ctask[c] = "none")
    /\ (processed_data = <<>>) =>
         /\ dchecks = <<>> /\ futures = <<>>
         /\ osent = osent0 /\ oerr = oerr0 /\ ostatus = ostatus0
\* a cycle is over in which a disabled collector was not invoked, the other
\* collector returned items, and the registered filters rejected them all
C23_Witness ==
  /\ RunOnceOver
  /\ \E c \in Collectors : cstatus0[c] = DISABLED_ /\ ctask[c] = "none" /\ clast[c] = 0
  /\ all_data # <<>>
  /\ filters # <<>>
  /\ \E i \in 1..Len(plog) : plog[i].kind = "filter"
  /\ processed_data = <<>>


\* C24: a registration call with a valid plugin whose key is already in the
\* registry of its kind leaves that registry with the same keys in the same
\* places, holds the new plugin under the key, and leaves every other entry and
\* the registry of the other kind as they were.
HasKey(d, key) == \E i \in 1..Len(d) : d[i].key = key
ReplacedIn(d, d0) ==
  /\ Len(d) = Len(d0)
  /\ \A i \in 1..Len(d) :
       /\ d[i].key = d0[i].key
       /\ d[i].plugin = IF d0[i].key = regarg.module THEN regarg ELSE d0[i].plugin
C24_SameKeyReplacesEarlierPlugin ==
  /\ (op = "register_collector_plugin" /\ ~escaped /\ HasKey(regs0[1], regarg.module)) =>
       (ReplacedIn(collector_plugins, regs0[1]) /\ output_plugins = regs0[2])
  /\ (op = "register_output_plugin" /\ ~escaped /\ HasKey(regs0[2], regarg.module)) =>
       (ReplacedIn(output_plugins, regs0[2]) /\ collector_plugins = regs0[1])
\* a collector plugin took the place of a different plugin that an earlier
\* call had registered under the key c3, next to the plugins c1 and c2
C24_Witness ==
  /\ op = "register_collector_plugin" /\ ~escaped
  /\ regarg.module = "c3"
  /\ Len(collector_plugins) = 3
  /\ \E i \in 1..Len(regs0[1]) :
       /\ regs0[1][i].key = "c3" /\ regs0[1][i].plugin # regarg
       /\ collector_plugins[i].plugin = regarg


\* C25: when collect_all_data has returned, the list it returns holds the
\* items of every collector that returned as one contiguous block, in the
\* order in which the collector returned them.
HasBlock(list, block) ==
  \E k \in 0..Len(list) :
    k + Len(block) <= Len(list) /\ SubSeq(list, k + 1, k + Len(block)) = block
C25_PluginItemsStayTogetherInOrder ==
  CollectCallOver =>
    \A c \in Collectors : ctask[c] = "ok" => HasBlock(all_data, cres[c])


\* C26: in a run_once cycle no filter or processor runs while a collector
\* call of the cycle is queued or executing, a send_data call is submitted
\* only for the list process_data has returned for the whole batch, and the
\* cycle is over only when every submitted send_data call has returned or raised.
CollectOutstanding ==
  \E c \in Collectors : ctask[c] \in {"queued", "taken", "running", "hung", "he_check", "he_return"}
InCollect == pc \in {"collect_submit", "collect_wait", "collect_he_check"}
CollectExecuting == Cardinality({c \in Collectors : ctask[c] \in {"running", "hung"}})
SendExecuting == Cardinality({k \in 1..Len(futures) : futures[k].st \in {"running", "hung"}})
C27_AtMostMaxWorkersExecuting == CollectExecuting + SendExecuting <= max_workers
\* in the distribute phase of a cycle whose two collector calls both returned,
\* max_workers send_data calls are executing and a submitted one waits
C27_Witness ==
  /\ op = "run_once" /\ pc = "dist_results"
  /\ \A c \in Collectors : ctask[c] = "ok"
  /\ SendExecuting = max_workers
  /\ \E k \in 1..Len(futures) : futures[k].st = "queued"


\* C28: every step that changes the data_items index is a step of the
\* controlling thread inside process_data, taken while no call submitted to a
\* worker pool is queued or executing.
PoolOutstanding ==
  \/ \E c \in Collectors : ctask[c] \in {"queued", "taken", "running", "hung", "he_check", "he_return"}
  \/ \E k \in 1..Len(futures) : futures[k].st \in {"queued", "running", "hung", "he_write", "he_check", "he_return"}
C28_IndexWrittenByControllerOnly ==
  [][data_items' # data_items =>
       /\ pc = "collect_wait" /\ pc' \in {"idle", "dist_submit"}
       /\ pbatch' = all_data
       /\ ~PoolOutstanding]_vars
\* process_data has written the index in a cycle whose collector calls ran in
\* the pool, one of them raising, and a send_data call of the cycle is executing
C28_Witness ==
  /\ op = "run_once" /\ pc = "dist_results"
  /\ data_items # data0
  /\ \E c \in Collectors : ctask[c] = "ok"
  /\ \E c \in Collectors : ctask[c] = "raised"
  /\ \E k \in 1..Len(futures) : futures[k].st = "running"


\* C30: a step that takes a plugin out of the status ERROR is a set_status
\* call: no engine call, no pool thread and no handle_error does it.
C30_ErrorLeftBySetStatusOnly ==
  [][(\/ \E c \in Collectors : cstatus[c] = ERROR_ /\ cstatus'[c] # ERROR_
      \/ \E o \in Outputs : ostatus[o] = ERROR_ /\ ostatus'[o] # ERROR_)
       => (pc = "idle" /\ op' = "set_status")]_vars
\* an engine call is over that an output plugin began and ended in ERROR, and
\* handle_error has since taken the plugin's error_count further past
\* retry_count
C30_Witness ==
  /\ op = "handle_error" /\ ncalls >= 1
  /\ \E o \in Outputs :
       ostatus0[o] = ERROR_ /\ ostatus[o] = ERROR_ /\ oerr[o] > oretry[o]


\* C29: a distribute_data call that has started submitting eventually returns,
\* and when it has, every submitted send_data call other than those that never
\* return has been executed, whatever max_workers is and however the pool
\* schedules.
C29_HungSendDoesNotBlockOthers ==
  (pc = "dist_submit") ~>
    (pc = "idle" /\ \A k \in 1..Len(futures) : futures[k].st \in {"true", "false", "raised", "hung"})


\* how often a tag occurs in a tag list
TagCount(tag, tags) == Cardinality({i \in 1..Len(tags) : tags[i] = tag})
NoDuplicateTag(tags) == \A tag \in TagNames : TagCount(tag, tags) <= 1

\* C31: a data item constructed with a duplicate-free tag list has every tag at
\* most once after every call; add_tag of a present tag and remove_tag of an
\* absent tag leave the list as it was, add_tag of an absent tag appends it,
\* and after remove_tag(t) the tag t is absent and the other tags are kept in
\* their order.
C31_TagsStayDuplicateFree ==
  [][(data_item' # NoDataItem /\ NoDuplicateTag(tags0')) =>
       /\ NoDuplicateTag(data_item'.tags)
       /\ \A tag \in TagNames :
            /\ ItemAddTag(tag) =>
                 data_item'.tags = IF TagCount(tag, data_item.tags) > 0 THEN data_item.tags
                                   ELSE Append(data_item.tags, tag)
            /\ ItemRemoveTag(tag) =>
                 /\ TagCount(tag, data_item'.tags) = 0
                 /\ data_item'.tags = SelectSeq(data_item.tags, LAMBDA x : x # tag)
                 /\ TagCount(tag, data_item.tags) = 0 => data_item'.tags = data_item.tags]_vars
\* an item constructed with two different tags, after a remove_tag call that
\* left the second tag only
C31_Witness ==
  /\ op = "remove_tag"
  /\ tags0 = <<"t1", "t2">>
  /\ data_item.tags = <<"t2">>


\* C32: validate_config of a collector plugin is true exactly when the name of
\* its PluginConfig is non-empty: register_collector_plugin raises exactly for
\* a plugin with an empty name, and a plugin with a non-empty name, whatever
\* its other fields, is in the registry under its key after the call.
C32_NonEmptyNameValidates ==
  op = "register_collector_plugin" =>
    /\ escaped <=> regarg.name = ""
    /\ regarg.name # "" =>
         \E i \in 1..Len(collector_plugins) :
           collector_plugins[i] = [key |-> get_plugin_name(regarg), plugin |-> regarg]


\* the item ids the index holds
StoredIds(index) == {id \in ItemIds : index[id] # NoItem}

\* C33: no step takes an item id out of data_items: an id once stored stays,
\* possibly with a newer item, so the number of ids stored never decreases,
\* and a report that get_status returns carries the number of ids stored at
\* the call.
C33_IndexNeverLosesAnEntry ==
  [][/\ StoredIds(data_items) \subseteq StoredIds(data_items')
     /\ Cardinality(StoredIds(data_items)) <= Cardinality(StoredIds(data_items'))
     /\ (op' = "get_status" /\ ~escaped') =>
          report'.total_data_items = Cardinality(StoredIds(data_items'))]_vars
\* a second process_data call replaced the item stored under "a" and left the
\* one stored under "b"
C33_Witness ==
  /\ op = "process_data"
  /\ ncalls = 2
  /\ data0["a"] # NoItem /\ data_items["a"] # NoItem /\ data_items["a"] # data0["a"]
  /\ data0["b"] # NoItem /\ data_items["b"] = data0["b"]


\* C34: after a run_once cycle, a collector that was enabled when the cycle
\* started and whose collect_data returned normally, and an output plugin that
\* was enabled and all of whose send_data calls returned true, have the
\* error_count and the status they had before the cycle.
C34_WellBehavedPluginKeepsErrorState ==
  RunOnceOver =>
    /\ \A c \in Collectors :
         (cstatus0[c] = ENABLED_ /\ ctask[c] = "ok") =>
           cerr[c] = cerr0[c] /\ cstatus[c] = cstatus0[c]
    /\ \A o \in Outputs :
         (ostatus0[o] = ENABLED_ /\ SendsWith(o, {"true"}) = SendsWith(o, {"true", "false", "raised", "hung", "queued", "running"})) =>
           oerr[o] = oerr0[o] /\ ostatus[o] = ostatus0[o]


\* C35: when distribute_data has returned from a phase in which two or more
\* send_data calls of one output plugin raised, the error_count of that plugin
\* equals the number of handle_error calls made on it, however the threads
\* interleaved inside handle_error, and the plugin is in ERROR when that
\* number has reached retry_count.
C35_NoErrorLostUnderConcurrency ==
  DistributeOver =>
    \A o \in Outputs :
      SendsWith(o, {"raised"}) >= 2 =>
        /\ oerr[o] = hcalls[o]
        /\ hcalls[o] >= oretry[o] => ostatus[o] = ERROR_


\* the steps of a flush that raise before the mail is handed over
SmtpFailures == {"connect_fails", "login_fails", "sendmail_fails"}

\* what the claim says of one step of a thread in the handler
HandlerStepOK ==
  \A t \in HandlerThreads :
    LET a == handler.th[t]
        b == handler'.th[t]
    IN /\ (a.pc = "return" /\ b.pc = "idle" /\ a.call = "emit") =>
            Len(handler.buffer) < handler.capacity
       /\ (a.pc = "idle" /\ b.call = "emit" /\ b.arg < handler.level) =>
            /\ handler'.buffer = handler.buffer
            /\ handler'.mails = handler.mails
            /\ b.pc = "return"
       /\ (a.pc = "idle" /\ b.call = "emit" /\ b.arg >= handler.level) =>
            handler'.buffer = Append(handler.buffer, [levelno |-> b.arg, id |-> handler'.emits])
       /\ (a.pc \in {"flush_test", "flush_send", "flush_clear"} /\ b.pc = "return") =>
            /\ handler'.buffer = <<>>
            /\ ~b.raised
       /\ (a.pc = "flush_clear" /\ b.pc = "return" /\ a.outcome \in SmtpFailures) =>
            \A i \in 1..Len(handler.buffer) : \A m \in 1..Len(handler.mails) :
              \A j \in 1..Len(handler.mails[m]) : handler.mails[m][j] # handler.buffer[i]

\* C36: when an emit call returns the buffer holds fewer records than the
\* capacity, an emit below the handler's level changes neither the buffer nor
\* the mails and one at or above it appends the record, a flush ends with
\* the buffer empty and with nothing raised to the caller, and the
\* records a flush discards after a failed connection, login or send are in
\* no mail that was delivered.
C36_BufferBoundedAndFlushEmpties == [][handler.made => HandlerStepOK]_vars


\* C37: in collect_data, join is called only on plugins that were started, a
\* plugin whose initialize_plugin returned a false value is neither started
\* nor joined, and when collect_data is over every started plugin was joined
\* and finalized and no exception left the call.
C37_JoinOnlyStartedPlugins ==
  \A p \in DataPlugins :
    /\ wq.joins[p] > 0 => wq.proc[p] # "new"
    /\ (p <= wq.n /\ wq.init[p] = "false") => (wq.proc[p] = "new" /\ wq.joins[p] = 0)
    /\ wq.pc = "done" =>
         /\ ~wq.raised
         /\ wq.proc[p] # "new" => (wq.joins[p] = 1 /\ wq.finalized[p])


\* C38: after every runTests and overallPrediction call the ensemble level is
\* the rounded average of the levels of the tests that are neither NO_TEST
\* nor DISABLED, and NO_TEST when there is no such test, whatever an earlier
\* call on the same object produced.
C38_EnsembleIsAverageOfExecutedTests ==
  eq.last \in {"runTests", "overallPrediction"} =>
    eq.ensemble = IF Executed(eq.tests) = <<>> THEN NO_TEST
                  ELSE RoundedAverage(SumLevels(Executed(eq.tests)), Len(Executed(eq.tests)))


\* C39: after every create_file call the beachadvisories list of the station
\* file holds at most one entry per date and is sorted by date ascending, and
\* a call repeated with the same samples leaves the list as it was.
C39_CreateFileMergesIdempotently ==
  sfile.exists =>
    /\ \A i, j \in 1..Len(sfile.advisories) :
         i < j => sfile.advisories[i].date < sfile.advisories[j].date
    /\ sfile.last = "create_file_again" => sfile.same

====
